---- MODULE Spec2Model ----
(***************************************************************************)
(* Sandbox Session & Access Proxy (demo/langgraph/sandbox_sessions_app.py) *)
(*                                                                         *)
(* The session registry (record + binding entries of a TTL cache), the     *)
(* process-wide asyncio lock, the capability tokens and the relay          *)
(* endpoints, as a state machine.  Every handler is a call in one of the   *)
(* call slots; a call advances one await at a time, so calls interleave    *)
(* exactly where the coroutines of the program can be suspended.           *)
(*                                                                         *)
(* Time is a global clock counted in ticks of 1/TicksPerSec second; the    *)
(* integer truncations of the program (int(total_seconds()), int(ts))      *)
(* are truncations to whole seconds of that clock.                         *)
(***************************************************************************)
EXTENDS Integers, FiniteSets, Sequences, TLC

\* ---------------------------------------------------------------- bounds
NumCalls       == 2      \* call slots: requests in flight at once
MaxSessions    == 2      \* session ids the run may allocate
MaxTokens      == 1
MaxFrames      == 2
MaxHeaderLen   == 3      \* tokens the clients keep at once
TicksPerSec    == 2      \* clock resolution
SessionMaxSecs == 1      \* SSAP_SESSION_MAX_HOURS, on the model's time scale
TokenTtlSecs   == 1      \* SSAP_TOKEN_TTL_MINUTES, on the model's time scale

Calls      == 1..NumCalls
SessionIds == 1..MaxSessions
Principals == {"alice", "mallory"}
Threads    == {"t1"}
Keys       == Principals \X Threads
Hints      == {"", "box-hint"}
RelayKinds == {"execute", "upload", "download", "ws"}
CapsConfigs == {{"execute", "upload", "download"}, {"execute"}}

VARIABLES
    now,        \* the clock, in ticks
    caps,       \* _caps(): SSAP_CAPS, fixed at startup
    sessions,   \* cache entries {prefix}:session:{sid}
    bindings,   \* cache entries {prefix}:binding:{sha256(principal:thread)}
    lock,       \* _lock: the call holding it, 0 when free
    nextSid,    \* the next fresh session id (_session_id() never repeats)
    calls,      \* the requests in flight, one per slot
    wallet,     \* access tokens the clients hold
    released,   \* history: sessions whose release returned 204
    granted     \* history: the record ensure has returned for each session id

vars == <<now, caps, sessions, bindings, lock, nextSid, calls, wallet, released, granted>>

\* ---------------------------------------------------------------- values
\* None, for a SessionRecord
NoRecord == [session_id |-> 0, thread_id |-> "", principal_id |-> "",
             sandbox_name |-> "", created_at |-> 0, session_expires_at |-> 0]

\* no credential in the request headers
NoToken == [sig |-> "none", sub |-> "", sid |-> 0, caps |-> {}, iat |-> 0, exp |-> 0]
\* a token that fails jwt.decode for another reason than expiry
BadToken == [sig |-> "bad", sub |-> "mallory", sid |-> 1, caps |-> {"execute", "upload", "download"},
             iat |-> 0, exp |-> 0]

\* a cache entry that was never set
NoEntry == [val |-> 0, until |-> 0]
NoRecEntry == [val |-> NoRecord, until |-> 0]

\* ------------------------------------------------------------ time, cache
\* int(x) of Python, on a difference of ticks: truncation toward zero of x / TicksPerSec
IntSecs(ticks) == IF ticks >= 0 THEN ticks \div TicksPerSec ELSE -((-ticks) \div TicksPerSec)

Max(a, b) == IF a >= b THEN a ELSE b

session_max_hours == SessionMaxSecs * TicksPerSec
ttl_minutes == TokenTtlSecs * TicksPerSec

\* _ttl_until: timedelta(seconds=max(1, int((expires_at - now).total_seconds()))), in ticks
ttl_until(expires_at) == Max(1, IntSecs(expires_at - now)) * TicksPerSec

\* cache_set(key, value, ttl): the entry is readable until now + ttl
cache_set(value, ttl) == [val |-> value, until |-> now + ttl]

\* cache_get(key): the value, or None once the TTL has elapsed
Readable(entry) == now < entry.until
cache_get_session(sid) == IF Readable(sessions[sid]) THEN sessions[sid].val ELSE NoRecord
cache_get_binding(key) == IF Readable(bindings[key]) THEN bindings[key].val ELSE 0

\* _load_session / _load_bound_session_id
load_session(sid) == IF sid \in SessionIds THEN cache_get_session(sid) ELSE NoRecord
load_bound_session_id(p, t) == cache_get_binding(<<p, t>>)

\* _save_session / _save_binding / _clear_binding_and_session, as the new cache
save_session(record) ==
    [sessions EXCEPT ![record.session_id] = cache_set(record, ttl_until(record.session_expires_at))]
\* variant: the binding key leaves the principal out, all principals share one entry
save_binding_SharedKey(p, t, sid, expires_at) ==
    [bindings EXCEPT ![<<"alice", t>>] = cache_set(sid, ttl_until(expires_at))]

save_binding(p, t, sid, expires_at) ==
    [bindings EXCEPT ![<<p, t>>] = cache_set(sid, ttl_until(expires_at))]
clear_session(record) ==
    [sessions EXCEPT ![record.session_id] = cache_set(NoRecord, TicksPerSec)]
clear_binding(record) ==
    [bindings EXCEPT ![<<record.principal_id, record.thread_id>>] = cache_set(0, TicksPerSec)]

\* ----------------------------------------------------------------- tokens
\* int(dt.timestamp()): the instant truncated to whole seconds, in ticks
IntTimestamp(t) == (t \div TicksPerSec) * TicksPerSec

\* _issue_access_token: (token, exp); the claims carry int(now) and int(exp)
issue_access_token(record) ==
    [sig |-> "ok", sub |-> record.principal_id, sid |-> record.session_id, caps |-> caps,
     iat |-> IntTimestamp(now), exp |-> IntTimestamp(now + ttl_minutes)]

\* _error: the HTTPException of the service
error(status, code) == [status |-> status, code |-> code, retryable |-> status \in {423, 429, 503}]
Success(status) == [status |-> status, code |-> "", retryable |-> FALSE]
NoResp == [status |-> 0, code |-> "", retryable |-> FALSE]

\* variant: exp is not verified
claims_from_token_NoExpiry(token) ==
    IF token.sig # "ok" THEN error(401, "UNAUTHENTICATED") ELSE Success(200)

\* _decode_access_token, then jwt.decode in _claims_from_token: the error raised, or
\* Success for a token that verifies (jwt.decode rejects exp <= now as expired)
claims_from_token(token) ==
    IF token.sig # "ok" THEN error(401, "UNAUTHENTICATED")
    ELSE IF token.exp <= now THEN error(401, "TOKEN_EXPIRED")
    ELSE Success(200)

\* variant: every token is taken to carry the capability
require_capability_Any(token, cap) == Success(200)

\* _require_capability
require_capability(token, cap) ==
    IF cap \in token.caps THEN Success(200) ELSE error(403, "CAPABILITY_DENIED")

\* required_cap of the four relay handlers
RequiredCap(kind) == IF kind = "ws" THEN "execute" ELSE kind

\* the path query parameter is mandatory for upload and download
NeedsPath(kind) == kind \in {"upload", "download"}

\* variant: claims.sid is not compared with the path session_id
relay_verify_NoSid(kind, session_id, token, hasPath) ==
    IF NeedsPath(kind) /\ ~hasPath THEN error(400, "INVALID_REQUEST")
    ELSE IF claims_from_token(token).status # 200 THEN claims_from_token(token)
    ELSE require_capability(token, RequiredCap(kind))

\* the synchronous head of a relay handler up to `await _load_session`:
\* path parameter, token extraction, jwt.decode, sid check, capability check
relay_verify(kind, session_id, token, hasPath) ==
    IF NeedsPath(kind) /\ ~hasPath THEN error(400, "INVALID_REQUEST")
    ELSE IF claims_from_token(token).status # 200 THEN claims_from_token(token)
    ELSE IF token.sid # session_id THEN error(403, "FORBIDDEN")
    ELSE require_capability(token, RequiredCap(kind))

\* variant: session_expires_at is not looked at
require_session_for_token_NoExpiry(token, record) ==
    IF record = NoRecord THEN error(404, "SESSION_NOT_FOUND")
    ELSE IF token.sub # record.principal_id THEN error(403, "FORBIDDEN")
    ELSE Success(200)

\* the tail of _require_session_for_token, on the record just loaded
require_session_for_token(token, record) ==
    IF record = NoRecord THEN error(404, "SESSION_NOT_FOUND")
    ELSE IF token.sub # record.principal_id THEN error(403, "FORBIDDEN")
    ELSE IF now > record.session_expires_at THEN error(410, "SESSION_EXPIRED")
    ELSE Success(200)

\* variant: session_expires_at is not looked at
get_owned_session_record_NoExpiry(principal_id, record) ==
    IF record = NoRecord THEN error(404, "SESSION_NOT_FOUND")
    ELSE IF record.principal_id # principal_id THEN error(403, "FORBIDDEN")
    ELSE Success(200)

\* variant: the ownership comparison is left out
get_owned_session_record_NoOwner(principal_id, record) ==
    IF record = NoRecord THEN error(404, "SESSION_NOT_FOUND")
    ELSE IF now > record.session_expires_at THEN error(410, "SESSION_EXPIRED")
    ELSE Success(200)

\* get_owned_session_record, on the record just loaded
get_owned_session_record(principal_id, record) ==
    IF record = NoRecord THEN error(404, "SESSION_NOT_FOUND")
    ELSE IF record.principal_id # principal_id THEN error(403, "FORBIDDEN")
    ELSE IF now > record.session_expires_at THEN error(410, "SESSION_EXPIRED")
    ELSE Success(200)

\* ensure_session_record, line 606: the bound record is returned as it is
\* variant: the expiry of the record found is not looked at
ExistingIsLive_IgnoresExpiry(existing) == existing # NoRecord

ExistingIsLive(existing) == existing # NoRecord /\ now <= existing.session_expires_at

\* ------------------------------------------------------------------ calls
\* a WebSocket frame: its kind (text, bytes; json for the relay's own error frames) and
\* its payload
NoFrame == [kind |-> "none", payload |-> 0]

\* request headers: a header value is a string, here a sequence of pieces, each a
\* space or a word without spaces; an absent header is the empty string
NoHeaders == [authorization |-> <<>>, x_api_key |-> <<>>]

\* what a handler sends out: the kind of output, the credentials of the process, the
\* text of the exception it reports, the output
NoEmit == [what |-> "", env |-> [api_key |-> "", jwt_secret |-> ""], text |-> "", output |-> <<>>]

\* the two sockets and the two pumps of relay_execute_ws
NoWs == [accepted |-> FALSE,   \* websocket.accept() has returned
         left |-> FALSE,       \* the client has disconnected
         close |-> 0,          \* the code the relay closed the client socket with
         crashed |-> FALSE,    \* an exception left the handler
         up |-> "none",        \* the upstream connection: none, open, closed
         upEnded |-> "",       \* how the upstream has closed its side: "", ok, error
         cSent |-> <<>>,       \* frames the client has sent
         cTaken |-> 0,         \* how many of them websocket.receive() has returned
         cNoted |-> FALSE,     \* websocket.receive() has returned the disconnect
         uGot |-> <<>>,        \* frames delivered to the upstream
         uSent |-> <<>>,       \* frames the upstream has sent
         uTaken |-> 0,         \* how many of them the iteration over upstream has returned
         out |-> <<>>,         \* frames delivered to the client
         c2u |-> "none", c2uMsg |-> NoFrame,   \* _client_to_upstream and the frame it holds
         u2c |-> "none", u2cMsg |-> NoFrame]   \* _upstream_to_client and the frame it holds

Idle == [op |-> "idle", pc |-> "idle", principal |-> "", thread |-> "", sid |-> 0,
         mode |-> "", hint |-> "", kind |-> "", path |-> FALSE, tok |-> NoToken,
         bound |-> 0, rec |-> NoRecord, resp |-> NoResp, token |-> NoToken,
         provider |-> FALSE, sent |-> FALSE, peers |-> {}, prior |-> {}, gone |-> {},
         ws |-> NoWs, headers |-> NoHeaders, extracted |-> <<>>, emit |-> NoEmit]

Finish(call, resp) == [call EXCEPT !.pc = "done", !.resp = resp]

InFlight(c) == calls[c].op # "idle" /\ calls[c].pc # "done"
DoneOk(c) == calls[c].pc = "done" /\ calls[c].resp.status \in {200, 204}
SameKey(c, d) == calls[c].principal = calls[d].principal /\ calls[c].thread = calls[d].thread

\* the client keeps the token of a response, or not
Keep(token) ==
    \/ wallet' = wallet
    \/ /\ Cardinality(wallet \cup {token}) <= MaxTokens
       /\ wallet' = wallet \cup {token}

\* history: ensure returns `record`
Grant(record) ==
    granted' = [granted EXCEPT ![record.session_id] = record]

Presentable == wallet \cup {NoToken, BadToken}

TypeOK ==
    /\ now \in 0..(TicksPerSec - 1)
    /\ caps \in CapsConfigs
    /\ lock \in {0} \cup Calls
    /\ nextSid \in 1..(MaxSessions + 1)
    /\ released \subseteq SessionIds
    /\ Cardinality(wallet) <= MaxTokens

Init ==
    /\ now = 0
    /\ caps \in CapsConfigs
    /\ sessions = [s \in SessionIds |-> NoRecEntry]
    /\ bindings = [k \in Keys |-> NoEntry]
    /\ lock = 0
    /\ nextSid = 1
    /\ calls = [c \in Calls |-> Idle]
    /\ wallet = {}
    /\ released = {}
    /\ granted = [s \in SessionIds |-> NoRecord]

\* ------------------------------------------------------- the clock, clients
\* The program reads instants only through comparisons with _now(), differences to
\* _now() and truncations to whole seconds, all of which are unchanged when every
\* instant moves by a whole number of seconds.  The clock is therefore counted from
\* the start of the current second: when a second completes, every instant kept
\* anywhere is re-based by one second.  Instants more than a second in the past are
\* all alike to the program and are kept as Past.
Past == -TicksPerSec
Rebase(wrap, t) == IF wrap THEN Max(t - TicksPerSec, Past) ELSE t
RebaseRecord(wrap, r) ==
    IF r.session_id = 0 THEN r
    ELSE [r EXCEPT !.created_at = Rebase(wrap, @), !.session_expires_at = Rebase(wrap, @)]
RebaseToken(wrap, t) ==
    IF t.sig # "ok" THEN t ELSE [t EXCEPT !.iat = Rebase(wrap, @), !.exp = Rebase(wrap, @)]
RebaseCall(wrap, call) ==
    [call EXCEPT !.rec = RebaseRecord(wrap, @), !.token = RebaseToken(wrap, @),
                 !.tok = RebaseToken(wrap, @)]

\* time passes; the cache drops the entries whose TTL has elapsed
Tick ==
    LET wrap == (now + 1 = TicksPerSec)
        next == IF wrap THEN 0 ELSE now + 1
    IN /\ now' = next
       /\ sessions' = [s \in SessionIds |->
                          IF Rebase(wrap, sessions[s].until) <= next THEN NoRecEntry
                          ELSE [val |-> RebaseRecord(wrap, sessions[s].val),
                                until |-> Rebase(wrap, sessions[s].until)]]
       /\ bindings' = [k \in Keys |->
                          IF Rebase(wrap, bindings[k].until) <= next THEN NoEntry
                          ELSE [bindings[k] EXCEPT !.until = Rebase(wrap, @)]]
       /\ calls' = [c \in Calls |-> RebaseCall(wrap, calls[c])]
       /\ wallet' = {RebaseToken(wrap, t) : t \in wallet}
       /\ granted' = [s \in SessionIds |-> RebaseRecord(wrap, granted[s])]
       /\ UNCHANGED <<caps, lock, nextSid, released>>

\* a client discards a token
Forget(token) ==
    /\ token \in wallet
    /\ wallet' = wallet \ {token}
    /\ UNCHANGED <<now, caps, sessions, bindings, lock, nextSid, calls, released, granted>>

\* the response has been delivered: the slot is free again
Return(c) ==
    /\ calls[c].pc = "done"
    /\ calls' = [d \in Calls |->
                    IF d = c THEN Idle
                    ELSE [calls[d] EXCEPT !.peers = @ \ {c}]]
    /\ UNCHANGED <<now, caps, sessions, bindings, lock, nextSid, wallet, released, granted>>

\* --------------------------------------- POST /v1/sandbox/sessions (acquire)
\* acquire_sandbox_session: the request is parsed and ensure_session_record is entered
Acquire(c, p, t, mode, hint) ==
    /\ calls[c].op = "idle"
    /\ LET racing == {d \in Calls \ {c} : calls[d].op = "ensure" /\ InFlight(d)
                                           /\ calls[d].principal = p /\ calls[d].thread = t}
           before == {s \in SessionIds : granted[s].principal_id = p /\ granted[s].thread_id = t}
       IN calls' = [d \in Calls |->
                       IF d = c THEN [Idle EXCEPT !.op = "ensure", !.pc = "lookup", !.principal = p,
                                                  !.thread = t, !.mode = mode, !.hint = hint,
                                                  !.peers = racing, !.prior = before,
                                                  !.gone = released]
                       ELSE IF d \in racing THEN [calls[d] EXCEPT !.peers = @ \cup {c}]
                       ELSE calls[d]]
    /\ UNCHANGED <<now, caps, sessions, bindings, lock, nextSid, wallet, released, granted>>

\* variant: the mode of the request is not looked at
Missed_IgnoresMode(call) == [call EXCEPT !.pc = "provider", !.provider = TRUE]

\* the outcome of a lookup that found no live session (lines 608-618): mode=get fails,
\* mode=ensure leaves the lock and calls the provider
Missed(call) ==
    IF call.mode = "get" THEN Finish(call, error(404, "SESSION_NOT_FOUND"))
    ELSE [call EXCEPT !.pc = "provider", !.provider = TRUE]

\* variant: the lock is kept when the provider has to be called
EnsureLookup_HoldsLock(c) ==
    /\ calls[c].op = "ensure" /\ calls[c].pc = "lookup"
    /\ lock = 0
    /\ LET existing_session_id == load_bound_session_id(calls[c].principal, calls[c].thread)
       IN IF existing_session_id # 0
          THEN /\ calls' = [calls EXCEPT ![c] = [@ EXCEPT !.pc = "existing", !.bound = existing_session_id]]
               /\ lock' = c
          ELSE /\ calls' = [calls EXCEPT ![c] = Missed(@)]
               /\ lock' = IF calls[c].mode = "get" THEN 0 ELSE c
    /\ UNCHANGED <<now, caps, sessions, bindings, nextSid, wallet, released, granted>>

\* `async with _lock` is entered and the binding is read (lines 602-604)
EnsureLookup(c) ==
    /\ calls[c].op = "ensure" /\ calls[c].pc = "lookup"
    /\ lock = 0
    /\ LET existing_session_id == load_bound_session_id(calls[c].principal, calls[c].thread)
       IN IF existing_session_id # 0
          THEN /\ calls' = [calls EXCEPT ![c] = [@ EXCEPT !.pc = "existing", !.bound = existing_session_id]]
               /\ lock' = c
          ELSE /\ calls' = [calls EXCEPT ![c] = Missed(@)]
               /\ lock' = 0
    /\ UNCHANGED <<now, caps, sessions, bindings, nextSid, wallet, released, granted>>

\* variant: the lock is not left when the call ends with SESSION_NOT_FOUND
EnsureExisting_KeepsLockOnMiss(c) ==
    /\ calls[c].op = "ensure" /\ calls[c].pc = "existing"
    /\ lock = c
    /\ LET existing == load_session(calls[c].bound)
       IN IF ExistingIsLive(existing)
          THEN /\ calls' = [calls EXCEPT ![c] =
                               [Finish(@, Success(200)) EXCEPT !.rec = existing,
                                                               !.token = issue_access_token(existing)]]
               /\ Keep(issue_access_token(existing))
               /\ Grant(existing)
               /\ lock' = 0
          ELSE /\ calls' = [calls EXCEPT ![c] = Missed(@)]
               /\ lock' = IF calls[c].mode = "get" THEN c ELSE 0
               /\ UNCHANGED <<wallet, granted>>
    /\ UNCHANGED <<now, caps, sessions, bindings, nextSid, released>>

\* the bound record is read and returned if it is live (lines 605-613); the lock is left
EnsureExisting(c) ==
    /\ calls[c].op = "ensure" /\ calls[c].pc = "existing"
    /\ lock = c
    /\ lock' = 0
    /\ LET existing == load_session(calls[c].bound)
       IN IF ExistingIsLive(existing)
          THEN /\ calls' = [calls EXCEPT ![c] =
                               [Finish(@, Success(200)) EXCEPT !.rec = existing,
                                                               !.token = issue_access_token(existing)]]
               /\ Keep(issue_access_token(existing))
               /\ Grant(existing)
          ELSE /\ calls' = [calls EXCEPT ![c] = Missed(@)]
               /\ UNCHANGED <<wallet, granted>>
    /\ UNCHANGED <<now, caps, sessions, bindings, nextSid, released>>

\* what get_sandbox (with a hint) or create_sandbox can answer
ProviderOutcomes(hint) ==
    {"ok", "unavailable", "no-name", "no-dataplane"} \cup (IF hint # "" THEN {"not-found"} ELSE {})

\* variant: every provider failure is reported as a missing sandbox
provider_error_AlwaysNotFound(outcome) == error(404, "SESSION_NOT_FOUND")

\* _langsmith_get_box / _langsmith_create_box and the payload checks, as the error raised
provider_error(outcome) ==
    IF outcome = "not-found" THEN error(404, "SESSION_NOT_FOUND") ELSE error(503, "BACKEND_UNAVAILABLE")

\* the name of the sandbox the provider answered with
SandboxName(hint, n) == IF hint # "" THEN hint ELSE "sbx-" \o ToString(n)

\* the provider answers and the record is built (lines 615-629)
EnsureProvider(c, outcome) ==
    /\ calls[c].op = "ensure" /\ calls[c].pc = "provider"
    /\ outcome \in ProviderOutcomes(calls[c].hint)
    /\ IF outcome = "ok"
       THEN /\ nextSid <= MaxSessions
            /\ LET record == [session_id |-> nextSid,
                              thread_id |-> calls[c].thread,
                              principal_id |-> calls[c].principal,
                              sandbox_name |-> SandboxName(calls[c].hint, nextSid),
                              created_at |-> now,
                              session_expires_at |-> now + session_max_hours]
               IN calls' = [calls EXCEPT ![c] = [@ EXCEPT !.pc = "save_session", !.rec = record]]
            /\ nextSid' = nextSid + 1
       ELSE /\ calls' = [calls EXCEPT ![c] = Finish(@, provider_error(outcome))]
            /\ UNCHANGED nextSid
    /\ UNCHANGED <<now, caps, sessions, bindings, lock, wallet, released, granted>>

\* variant: the binding is written first
EnsureSaveSession_BindingFirst(c) ==
    /\ calls[c].op = "ensure" /\ calls[c].pc = "save_session"
    /\ lock = 0
    /\ lock' = c
    /\ bindings' = save_binding(calls[c].principal, calls[c].thread,
                                calls[c].rec.session_id, calls[c].rec.session_expires_at)
    /\ sessions' = save_session(calls[c].rec)
    /\ calls' = [calls EXCEPT ![c] = [@ EXCEPT !.pc = "save_binding"]]
    /\ UNCHANGED <<now, caps, nextSid, wallet, released, granted>>

\* `async with _lock` is entered again and the record is written (lines 631-632)
EnsureSaveSession(c) ==
    /\ calls[c].op = "ensure" /\ calls[c].pc = "save_session"
    /\ lock = 0
    /\ lock' = c
    /\ sessions' = save_session(calls[c].rec)
    /\ calls' = [calls EXCEPT ![c] = [@ EXCEPT !.pc = "save_binding"]]
    /\ UNCHANGED <<now, caps, bindings, nextSid, wallet, released, granted>>

\* variant: a binding that is already there is kept
EnsureSaveBinding_KeepsExisting(c) ==
    /\ calls[c].op = "ensure" /\ calls[c].pc = "save_binding"
    /\ lock = c
    /\ lock' = 0
    /\ bindings' = IF load_bound_session_id(calls[c].principal, calls[c].thread) # 0
                   THEN bindings
                   ELSE save_binding(calls[c].principal, calls[c].thread,
                                     calls[c].rec.session_id, calls[c].rec.session_expires_at)
    /\ calls' = [calls EXCEPT ![c] = [Finish(@, Success(200)) EXCEPT !.token = issue_access_token(calls[c].rec)]]
    /\ Keep(issue_access_token(calls[c].rec))
    /\ Grant(calls[c].rec)
    /\ UNCHANGED <<now, caps, sessions, nextSid, released>>

\* the binding is written, the lock is left, the record is returned and the
\* token of the response is issued (lines 633-634, 653)
EnsureSaveBinding(c) ==
    /\ calls[c].op = "ensure" /\ calls[c].pc = "save_binding"
    /\ lock = c
    /\ lock' = 0
    /\ bindings' = save_binding(calls[c].principal, calls[c].thread,
                                calls[c].rec.session_id, calls[c].rec.session_expires_at)
    /\ calls' = [calls EXCEPT ![c] = [Finish(@, Success(200)) EXCEPT !.token = issue_access_token(calls[c].rec)]]
    /\ Keep(issue_access_token(calls[c].rec))
    /\ Grant(calls[c].rec)
    /\ UNCHANGED <<now, caps, sessions, nextSid, released>>

\* ------------------------------------------- GET /v1/sandbox/sessions/{sid}
\* get_sandbox_session: one cache read, then the checks and the token
GetSession(c, p, sid) ==
    /\ calls[c].op = "idle"
    /\ LET record == load_session(sid)
           resp == get_owned_session_record(p, record)
           call == [Idle EXCEPT !.op = "get", !.principal = p, !.sid = sid]
       IN IF resp.status = 200
          THEN /\ calls' = [calls EXCEPT ![c] =
                               [Finish(call, resp) EXCEPT !.rec = record,
                                                          !.token = issue_access_token(record)]]
               /\ Keep(issue_access_token(record))
          ELSE /\ calls' = [calls EXCEPT ![c] = Finish(call, resp)]
               /\ wallet' = wallet
    /\ UNCHANGED <<now, caps, sessions, bindings, lock, nextSid, released, granted>>

\* ---------------------------------- POST /v1/sandbox/sessions/{sid}/refresh
\* variant: refresh moves session_expires_at to a full lifetime from now
RefreshLoad_Extends(c, p, sid) ==
    /\ calls[c].op = "idle"
    /\ LET record == load_session(sid)
           resp == get_owned_session_record(p, record)
           call == [Idle EXCEPT !.op = "refresh", !.principal = p, !.sid = sid]
       IN calls' = [calls EXCEPT ![c] =
                       IF resp.status = 200
                       THEN [call EXCEPT !.pc = "save_session",
                                         !.rec = [record EXCEPT !.session_expires_at =
                                                                   now + session_max_hours],
                                         !.token = issue_access_token(record)]
                       ELSE Finish(call, resp)]
    /\ UNCHANGED <<now, caps, sessions, bindings, lock, nextSid, wallet, released, granted>>

\* refresh_sandbox_session up to `await _save_session`: the record is read and
\* checked and the new token is made (lines 667-671)
RefreshLoad(c, p, sid) ==
    /\ calls[c].op = "idle"
    /\ LET record == load_session(sid)
           resp == get_owned_session_record(p, record)
           call == [Idle EXCEPT !.op = "refresh", !.principal = p, !.sid = sid]
       IN calls' = [calls EXCEPT ![c] =
                       IF resp.status = 200
                       THEN [call EXCEPT !.pc = "save_session", !.rec = record,
                                         !.token = issue_access_token(record)]
                       ELSE Finish(call, resp)]
    /\ UNCHANGED <<now, caps, sessions, bindings, lock, nextSid, wallet, released, granted>>

\* line 672
RefreshSaveSession(c) ==
    /\ calls[c].op = "refresh" /\ calls[c].pc = "save_session"
    /\ sessions' = save_session(calls[c].rec)
    /\ calls' = [calls EXCEPT ![c] = [@ EXCEPT !.pc = "save_binding"]]
    /\ UNCHANGED <<now, caps, bindings, lock, nextSid, wallet, released, granted>>

\* lines 673-674
RefreshSaveBinding(c) ==
    /\ calls[c].op = "refresh" /\ calls[c].pc = "save_binding"
    /\ bindings' = save_binding(calls[c].principal, calls[c].rec.thread_id,
                                calls[c].sid, calls[c].rec.session_expires_at)
    /\ calls' = [calls EXCEPT ![c] = Finish(@, Success(200))]
    /\ Keep(calls[c].token)
    /\ UNCHANGED <<now, caps, sessions, lock, nextSid, released, granted>>

\* ---------------------------------------- DELETE /v1/sandbox/sessions/{sid}
\* release_sandbox_session up to the first cache write (lines 678-681)
ReleaseLoad(c, p, sid) ==
    /\ calls[c].op = "idle"
    /\ LET record == load_session(sid)
           resp == get_owned_session_record(p, record)
           call == [Idle EXCEPT !.op = "release", !.principal = p, !.sid = sid]
       IN calls' = [calls EXCEPT ![c] =
                       IF resp.status = 200
                       THEN [call EXCEPT !.pc = "clear_session", !.rec = record]
                       ELSE Finish(call, resp)]
    /\ UNCHANGED <<now, caps, sessions, bindings, lock, nextSid, wallet, released, granted>>

\* _clear_binding_and_session, line 419
ReleaseClearSession(c) ==
    /\ calls[c].op = "release" /\ calls[c].pc = "clear_session"
    /\ sessions' = clear_session(calls[c].rec)
    /\ calls' = [calls EXCEPT ![c] = [@ EXCEPT !.pc = "clear_binding"]]
    /\ UNCHANGED <<now, caps, bindings, lock, nextSid, wallet, released, granted>>

\* _clear_binding_and_session, line 420, and the 204
ReleaseClearBinding(c) ==
    /\ calls[c].op = "release" /\ calls[c].pc = "clear_binding"
    /\ bindings' = clear_binding(calls[c].rec)
    /\ calls' = [calls EXCEPT ![c] = Finish(@, Success(204))]
    /\ released' = released \cup {calls[c].sid}
    /\ UNCHANGED <<now, caps, sessions, lock, nextSid, wallet, granted>>

\* ------------------------------------------ /v1/sandbox/relay/{sid}/<kind>
\* a relay handler up to `await _load_session`
RelayVerify(c, kind, sid, token, hasPath) ==
    /\ calls[c].op = "idle"
    /\ token \in Presentable
    /\ LET resp == relay_verify(kind, sid, token, hasPath)
           call == [Idle EXCEPT !.op = "relay", !.kind = kind, !.sid = sid, !.tok = token,
                                !.path = hasPath, !.gone = released]
       IN calls' = [calls EXCEPT ![c] =
                       IF resp.status = 200 THEN [call EXCEPT !.pc = "load"] ELSE Finish(call, resp)]
    /\ UNCHANGED <<now, caps, sessions, bindings, lock, nextSid, wallet, released, granted>>

\* the record is read and checked against the claims (lines 581-588)
RelayLoad(c) ==
    /\ calls[c].op = "relay" /\ calls[c].pc = "load"
    /\ LET record == load_session(calls[c].sid)
           resp == require_session_for_token(calls[c].tok, record)
       IN calls' = [calls EXCEPT ![c] =
                       IF resp.status = 200 THEN [@ EXCEPT !.pc = "forward", !.rec = record]
                       ELSE Finish(@, resp)]
    /\ UNCHANGED <<now, caps, sessions, bindings, lock, nextSid, wallet, released, granted>>

\* the statuses the data plane may answer with
UpstreamStatuses == {200, 500}

\* the request goes to the data plane and its answer is mirrored
RelayForward(c, status) ==
    /\ calls[c].op = "relay" /\ calls[c].pc = "forward"
    /\ calls' = [calls EXCEPT ![c] = [Finish(@, [status |-> status, code |-> "", retryable |-> FALSE])
                                        EXCEPT !.sent = TRUE]]
    /\ UNCHANGED <<now, caps, sessions, bindings, lock, nextSid, wallet, released, granted>>

\* ------------------------------------ /v1/sandbox/relay/{sid}/execute/ws
\* the JSON frame that carries an error to the client
ErrorFrame(code) == [kind |-> "json", payload |-> code]

\* websocket.send_json / send_text / send_bytes: the frame reaches a client that is
\* still there; on a client that has left the call raises
ClientCanReceive(w) == ~w.left /\ w.close = 0

\* lines 750-752: the handshake is accepted
WsAccept(c, sid, token) ==
    /\ calls[c].op = "idle"
    /\ token \in Presentable
    /\ calls' = [calls EXCEPT ![c] =
                    [Idle EXCEPT !.op = "ws", !.pc = "verify", !.kind = "ws", !.sid = sid,
                                 !.tok = token, !.ws = [NoWs EXCEPT !.accepted = TRUE]]]
    /\ UNCHANGED <<now, caps, sessions, bindings, lock, nextSid, wallet, released, granted>>

\* the client goes away
ClientLeaves(c) ==
    /\ calls[c].op = "ws" /\ calls[c].pc # "done"
    /\ ClientCanReceive(calls[c].ws)
    /\ calls' = [calls EXCEPT ![c].ws.left = TRUE]
    /\ UNCHANGED <<now, caps, sessions, bindings, lock, nextSid, wallet, released, granted>>

\* lines 755-756 up to `await _load_session`: token, claims, sid, capability
WsVerify(c) ==
    /\ calls[c].op = "ws" /\ calls[c].pc = "verify"
    /\ LET resp == relay_verify("ws", calls[c].sid, calls[c].tok, TRUE)
       IN calls' = [calls EXCEPT ![c] =
                       IF resp.status = 200 THEN [@ EXCEPT !.pc = "load"]
                       ELSE [@ EXCEPT !.pc = "reject", !.resp = resp]]
    /\ UNCHANGED <<now, caps, sessions, bindings, lock, nextSid, wallet, released, granted>>

\* line 756, the rest of _require_session_for_token
WsLoad(c) ==
    /\ calls[c].op = "ws" /\ calls[c].pc = "load"
    /\ LET record == load_session(calls[c].sid)
           resp == require_session_for_token(calls[c].tok, record)
       IN calls' = [calls EXCEPT ![c] =
                       IF resp.status = 200 THEN [@ EXCEPT !.pc = "setup", !.rec = record]
                       ELSE [@ EXCEPT !.pc = "reject", !.resp = resp]]
    /\ UNCHANGED <<now, caps, sessions, bindings, lock, nextSid, wallet, released, granted>>

\* lines 757-760: the error frame; when send_json raises, the suppress block is left
\* and its close(code=4401) is not reached
WsReject(c) ==
    /\ calls[c].op = "ws" /\ calls[c].pc = "reject"
    /\ calls' = [calls EXCEPT ![c] =
                    IF ClientCanReceive(@.ws)
                    THEN [@ EXCEPT !.pc = "close4401",
                                   !.ws.out = Append(@, ErrorFrame(calls[c].resp.code))]
                    ELSE Finish(@, calls[c].resp)]
    /\ UNCHANGED <<now, caps, sessions, bindings, lock, nextSid, wallet, released, granted>>

\* variant: the socket is closed with the default code
WsClose4401_DefaultCode(c) ==
    /\ calls[c].op = "ws" /\ calls[c].pc = "close4401"
    /\ calls' = [calls EXCEPT ![c] =
                    Finish([@ EXCEPT !.ws.close = IF @ = 0 THEN 1000 ELSE @], calls[c].resp)]
    /\ UNCHANGED <<now, caps, sessions, bindings, lock, nextSid, wallet, released, granted>>

\* lines 761-762: close(code=4401), return
WsClose4401(c) ==
    /\ calls[c].op = "ws" /\ calls[c].pc = "close4401"
    /\ calls' = [calls EXCEPT ![c] =
                    Finish([@ EXCEPT !.ws.close = IF @ = 0 THEN 4401 ELSE @], calls[c].resp)]
    /\ UNCHANGED <<now, caps, sessions, bindings, lock, nextSid, wallet, released, granted>>

\* lines 764-765, outside every try block: the upstream URL and the server API key.
\* _langsmith_api_key reads the environment at each call and raises when no key is set.
WsSetup(c, hasKey) ==
    /\ calls[c].op = "ws" /\ calls[c].pc = "setup"
    /\ calls' = [calls EXCEPT ![c] =
                    IF hasKey THEN [@ EXCEPT !.pc = "connect"]
                    ELSE Finish([@ EXCEPT !.ws.crashed = TRUE], error(503, "BACKEND_UNAVAILABLE"))]
    /\ UNCHANGED <<now, caps, sessions, bindings, lock, nextSid, wallet, released, granted>>

\* lines 795-813: the upstream connection is opened and the two pumps are started, or
\* connecting raises
WsConnect(c, outcome) ==
    /\ calls[c].op = "ws" /\ calls[c].pc = "connect"
    /\ outcome \in {"ok", "refused"}
    /\ calls' = [calls EXCEPT ![c] =
                    IF outcome = "ok"
                    THEN [@ EXCEPT !.pc = "wait", !.sent = TRUE, !.ws.up = "open",
                                   !.ws.c2u = "receive", !.ws.u2c = "next"]
                    ELSE [@ EXCEPT !.pc = "relay_error", !.sent = TRUE]]
    /\ UNCHANGED <<now, caps, sessions, bindings, lock, nextSid, wallet, released, granted>>

\* lines 818-826: the best-effort RelayError frame
WsRelayError(c) ==
    /\ calls[c].op = "ws" /\ calls[c].pc = "relay_error"
    /\ calls' = [calls EXCEPT ![c] =
                    [@ EXCEPT !.pc = "finally", !.resp = error(500, "RelayError"),
                              !.ws.out = IF ClientCanReceive(calls[c].ws)
                                         THEN Append(@, ErrorFrame("RelayError")) ELSE @]]
    /\ UNCHANGED <<now, caps, sessions, bindings, lock, nextSid, wallet, released, granted>>

\* lines 827-829: websocket.close(), whatever happened before
WsFinally(c) ==
    /\ calls[c].op = "ws" /\ calls[c].pc = "finally"
    /\ calls' = [calls EXCEPT ![c] =
                    Finish([@ EXCEPT !.ws.close = IF @ = 0 THEN 1000 ELSE @],
                           IF calls[c].resp = NoResp THEN Success(101) ELSE calls[c].resp)]
    /\ UNCHANGED <<now, caps, sessions, bindings, lock, nextSid, wallet, released, granted>>

\* ------------------------------------------------ the error envelope
\* the statuses and codes an HTTPException reaches the handler with
ErrorStatuses == {400, 401, 403, 404, 405, 410, 423, 429, 500, 503}
ErrorCodes == {"INVALID_REQUEST", "UNAUTHENTICATED", "TOKEN_EXPIRED", "CAPABILITY_DENIED",
               "FORBIDDEN", "NOT_FOUND", "SESSION_NOT_FOUND", "SESSION_EXPIRED",
               "BACKEND_UNAVAILABLE"}

\* _error, lines 224-234: the HTTPException with a dict detail
http_error(status, code) ==
    [status_code |-> status,
     detail |-> [dict |-> TRUE, code |-> code, retryable |-> status \in {423, 429, 503}]]

\* an HTTPException whose detail is a string, as the framework and the ingress raise
plain_http_exception(status) ==
    [status_code |-> status, detail |-> [dict |-> FALSE, code |-> "", retryable |-> FALSE]]

\* the HTTPExceptions that reach the handler
HttpExceptions ==
    {http_error(status, code) : status \in ErrorStatuses, code \in ErrorCodes}
        \cup {plain_http_exception(status) : status \in ErrorStatuses}

\* _handle_http_exception, lines 844-851: a dict detail is the body as it is, any
\* other detail is wrapped
handle_http_exception(exc) ==
    IF exc.detail.dict
    THEN [status |-> exc.status_code, code |-> exc.detail.code, retryable |-> exc.detail.retryable]
    ELSE [status |-> exc.status_code, code |-> "HTTP_ERROR", retryable |-> FALSE]

\* an HTTPException is raised under the application and handled
HandleHttpException(c, exc) ==
    /\ calls[c].op = "idle"
    /\ calls' = [calls EXCEPT ![c] =
                    Finish([Idle EXCEPT !.op = "raise",
                                        !.kind = IF exc.detail.dict THEN "dict" ELSE "plain"],
                           handle_http_exception(exc))]
    /\ UNCHANGED <<now, caps, sessions, bindings, lock, nextSid, wallet, released, granted>>

\* ------------------------------------------------ the token in the request headers
Words == {"Bearer", "bearer", "Basic", "tokA", "tokB"}
Pieces == Words \cup {" "}
Strings(alphabet) == UNION {[1..n -> alphabet] : n \in 0..MaxHeaderLen}

\* str.lower(), on a word
Lower(word) == IF word = "Bearer" THEN "bearer" ELSE word

\* str.strip()
RECURSIVE LStrip(_)
LStrip(str) == IF str # <<>> /\ Head(str) = " " THEN LStrip(Tail(str)) ELSE str
RECURSIVE RStrip(_)
RStrip(str) ==
    IF str # <<>> /\ str[Len(str)] = " " THEN RStrip(SubSeq(str, 1, Len(str) - 1)) ELSE str
Strip(str) == RStrip(LStrip(str))

\* str.split(" ", 1): the parts around the first space, one part when there is none
Split1(str) ==
    IF \E i \in 1..Len(str) : str[i] = " "
    THEN LET i == CHOOSE k \in 1..Len(str) : str[k] = " " /\ \A j \in 1..(k - 1) : str[j] # " "
         IN <<SubSeq(str, 1, i - 1), SubSeq(str, i + 1, Len(str))>>
    ELSE <<str>>

Extracted(token) == [resp |-> Success(200), token |-> token]
NotExtracted == [resp |-> error(401, "UNAUTHENTICATED"), token |-> <<>>]

\* _decode_bearer_token
decode_bearer_token(auth_header) ==
    IF auth_header = <<>> THEN NotExtracted
    ELSE LET parts == Split1(auth_header)
         IN IF Len(parts) # 2 \/ Len(parts[1]) # 1 THEN NotExtracted
            ELSE IF Lower(parts[1][1]) # "bearer" THEN NotExtracted
            ELSE Extracted(Strip(parts[2]))

\* _decode_access_token
decode_access_token(headers) ==
    IF headers.authorization # <<>> THEN decode_bearer_token(headers.authorization)
    ELSE IF Strip(headers.x_api_key) # <<>> THEN Extracted(Strip(headers.x_api_key))
    ELSE NotExtracted

\* a relay request arrives with these two headers: _decode_access_token(request.headers)
ExtractToken(c, authorization, x_api_key) ==
    /\ calls[c].op = "idle"
    /\ LET headers == [authorization |-> authorization, x_api_key |-> x_api_key]
           result == decode_access_token(headers)
       IN calls' = [calls EXCEPT ![c] =
                       Finish([Idle EXCEPT !.op = "extract", !.headers = headers,
                                           !.extracted = result.token], result.resp)]
    /\ UNCHANGED <<now, caps, sessions, bindings, lock, nextSid, wallet, released, granted>>

\* ------------------------------------------------ tokens as they arrive on the wire
\* jwt.decode on any token: what a holder of a token, or of the secret, can present
Issuer         == "ssap-demo"
Issuers        == {Issuer, "someone-else"}
Algorithms     == {"HS256", "HS512"}
RequiredClaims == {"exp", "iat", "sid", "sub"}

\* a token with the header algorithm, the iss claim, the signature state and the
\* claims that were left out of the payload
Forge(token, sig, alg, iss, missing) ==
    [sig |-> sig, sub |-> token.sub, sid |-> token.sid, caps |-> token.caps,
     iat |-> token.iat, exp |-> token.exp, alg |-> alg, iss |-> iss, missing |-> missing]

\* lines 447-458: jwt.encode(payload, secret, algorithm="HS256") with all claims
Encode(token) == Forge(token, token.sig, "HS256", Issuer, {})

\* variant: the issuer is not verified
jwt_decode_AnyIssuer(wire) ==
    IF wire.alg # "HS256" THEN error(401, "UNAUTHENTICATED")
    ELSE IF wire.sig # "ok" THEN error(401, "UNAUTHENTICATED")
    ELSE IF wire.missing # {} THEN error(401, "UNAUTHENTICATED")
    ELSE IF wire.exp <= now THEN error(401, "TOKEN_EXPIRED")
    ELSE Success(200)

\* _claims_from_token, lines 483-493.  jwt.decode verifies the algorithm and the
\* signature, then the required claims, then exp, then the issuer; ExpiredSignatureError
\* becomes TOKEN_EXPIRED and every other InvalidTokenError UNAUTHENTICATED.
jwt_decode(wire) ==
    IF wire.alg # "HS256" THEN error(401, "UNAUTHENTICATED")
    ELSE IF wire.sig # "ok" THEN error(401, "UNAUTHENTICATED")
    ELSE IF wire.missing # {} THEN error(401, "UNAUTHENTICATED")
    ELSE IF wire.exp <= now THEN error(401, "TOKEN_EXPIRED")
    ELSE IF wire.iss # Issuer THEN error(401, "UNAUTHENTICATED")
    ELSE Success(200)

\* the claims jwt.decode returns: the payload
Payload(wire) ==
    [sub |-> IF "sub" \in wire.missing THEN "" ELSE wire.sub,
     sid |-> IF "sid" \in wire.missing THEN 0 ELSE wire.sid,
     caps |-> wire.caps]

\* _claims_from_token(token) is called on a token derived from one the service issued
VerifyToken(c, token, sig, alg, iss, missing) ==
    /\ calls[c].op = "idle"
    /\ token \in wallet
    /\ LET wire == Forge(token, sig, alg, iss, missing)
       IN calls' = [calls EXCEPT ![c] =
                       Finish([Idle EXCEPT !.op = "verify", !.tok = wire], jwt_decode(wire))]
    /\ UNCHANGED <<now, caps, sessions, bindings, lock, nextSid, wallet, released, granted>>

\* ------------------------------------------------ the credentials of the process
\* _langsmith_api_key() and _jwt_secret(): the values the environment may hold
ApiKeys    == {"lsv2-key-one", "lsv2-key-two"}
JwtSecrets == {"dev-only-ssap-secret-change-me", "another-secret"}
Envs       == [api_key : ApiKeys, jwt_secret : JwtSecrets]

\* str(exc) of the exceptions the provider client and websockets.connect raise
ExceptionTexts == {"connection refused", "server rejected the request: HTTP 500"}

\* jwt.encode(payload, secret, algorithm="HS256"): the payload and its MAC under the secret
jwt_encode(payload, secret) == [payload |-> payload, signature |-> <<"HS256", secret, payload>>]

\* variant: the signing secret is put into the payload
access_token_SecretInPayload(record, env) ==
    jwt_encode([iss |-> Issuer, sub |-> record.principal_id, sid |-> record.session_id,
                thread_id |-> record.thread_id, sandbox_id |-> record.sandbox_name,
                caps |-> caps, iat |-> IntTimestamp(now),
                exp |-> IntTimestamp(now + ttl_minutes), kid |-> env.jwt_secret],
               env.jwt_secret)

\* _issue_access_token, lines 447-458, with the claims that are left out of
\* issue_access_token above (jti is random and left out here as well)
access_token(record, env) ==
    jwt_encode([iss |-> Issuer, sub |-> record.principal_id, sid |-> record.session_id,
                thread_id |-> record.thread_id, sandbox_id |-> record.sandbox_name,
                caps |-> caps, iat |-> IntTimestamp(now),
                exp |-> IntTimestamp(now + ttl_minutes)],
               env.jwt_secret)

\* _acquire_response: the body of acquire and get
acquire_response(record, token) ==
    [session_id |-> record.session_id, thread_id |-> record.thread_id,
     sandbox |-> [id |-> record.sandbox_name,
                  http_base_url |-> <<"/v1/sandbox/relay/", record.session_id>>,
                  ws_base_url |-> <<"/v1/sandbox/relay/", record.session_id>>],
     token |-> token, expires_at |-> now + ttl_minutes]

\* _refresh_response
refresh_response(token) == [token |-> token, expires_at |-> now + ttl_minutes]

\* lines 523 and 544: the envelope of a provider failure carries the exception's text
provider_failure(text) ==
    [status |-> 503, code |-> "BACKEND_UNAVAILABLE", retryable |-> TRUE,
     message |-> <<"Failed to create sandbox: ", text>>]

\* lines 110-114: the envelope when no key is configured
missing_key_failure ==
    [status |-> 503, code |-> "BACKEND_UNAVAILABLE", retryable |-> TRUE,
     message |-> <<"One of LANGSMITH_API_KEY, LANGGRAPH_API_KEY, or LANGCHAIN_API_KEY is required">>]

\* lines 820-826: the RelayError frame carries the exception's text
relay_error_frame(text) ==
    [type |-> "error", error_type |-> "RelayError", error |-> <<"relay websocket failed: ", text>>]

\* lines 691-698, 764-765: the request the relay sends to the upstream
upstream_request(record, env) ==
    [url |-> <<record.sandbox_name, "/execute">>, headers |-> [x_api_key |-> env.api_key]]

OutputKinds == {"acquire", "refresh", "provider_failure", "missing_key_failure", "relay_error",
                "upstream_request"}

\* what the process running with credentials env sends out
Output(what, env, record, text) ==
    CASE what = "acquire" -> acquire_response(record, access_token(record, env))
      [] what = "refresh" -> refresh_response(access_token(record, env))
      [] what = "provider_failure" -> provider_failure(text)
      [] what = "missing_key_failure" -> missing_key_failure
      [] what = "relay_error" -> relay_error_frame(text)
      [] what = "upstream_request" -> upstream_request(record, env)

\* a handler of a process whose environment holds env sends an output about the
\* stored session sid
Emit(c, what, env, sid, text) ==
    /\ calls[c].op = "idle"
    /\ load_session(sid) # NoRecord
    /\ text \in ExceptionTexts
    /\ LET record == load_session(sid)
       IN calls' = [calls EXCEPT ![c] =
                       Finish([Idle EXCEPT !.op = "emit", !.rec = record,
                                           !.emit = [what |-> what, env |-> env, text |-> text,
                                                     output |-> Output(what, env, record, text)]],
                              Success(200))]
    /\ UNCHANGED <<now, caps, sessions, bindings, lock, nextSid, wallet, released, granted>>

\* the kinds of frame the two peers send
FrameKinds == {"text", "bytes"}

\* lines 779-784: message.get("text") is forwarded with upstream.send(str), a text
\* frame; otherwise message.get("bytes") with upstream.send(bytes), a binary frame
client_to_upstream(frame) ==
    IF frame.kind = "text" THEN [kind |-> "text", payload |-> frame.payload]
    ELSE IF frame.kind = "bytes" THEN [kind |-> "bytes", payload |-> frame.payload]
    ELSE NoFrame

\* variant: every upstream message goes out with send_text
upstream_to_client_AllText(frame) == [kind |-> "text", payload |-> frame.payload]

\* lines 790-793: a str message goes out with send_text, anything else with send_bytes
upstream_to_client(frame) ==
    IF frame.kind = "text" THEN [kind |-> "text", payload |-> frame.payload]
    ELSE [kind |-> "bytes", payload |-> frame.payload]

\* the pumps run
Tunnel(c) == calls[c].op = "ws" /\ calls[c].pc # "done" /\ calls[c].ws.c2u # "none"
Finished(pump) == pump \in {"done", "failed", "cancelled"}

\* the client sends its next frame
ClientSends(c, kind) ==
    /\ Tunnel(c) /\ ClientCanReceive(calls[c].ws)
    /\ Len(calls[c].ws.cSent) < MaxFrames
    /\ calls' = [calls EXCEPT ![c].ws.cSent =
                    Append(@, [kind |-> kind, payload |-> Len(@) + 1])]
    /\ UNCHANGED <<now, caps, sessions, bindings, lock, nextSid, wallet, released, granted>>

\* the upstream sends its next frame
UpstreamSends(c, kind) ==
    /\ Tunnel(c) /\ calls[c].ws.up = "open" /\ calls[c].ws.upEnded = ""
    /\ Len(calls[c].ws.uSent) < MaxFrames
    /\ calls' = [calls EXCEPT ![c].ws.uSent =
                    Append(@, [kind |-> kind, payload |-> Len(@) + 1])]
    /\ UNCHANGED <<now, caps, sessions, bindings, lock, nextSid, wallet, released, granted>>

\* the upstream closes the connection, in order or not
UpstreamEnds(c, how) ==
    /\ Tunnel(c) /\ calls[c].ws.up = "open" /\ calls[c].ws.upEnded = ""
    /\ how \in {"ok", "error"}
    /\ calls' = [calls EXCEPT ![c].ws.upEnded = how]
    /\ UNCHANGED <<now, caps, sessions, bindings, lock, nextSid, wallet, released, granted>>

\* _client_to_upstream, lines 770-778: websocket.receive() returns the next frame, or
\* the disconnect
C2uReceive(c) ==
    /\ Tunnel(c) /\ calls[c].ws.c2u = "receive"
    /\ LET w == calls[c].ws
       IN \/ /\ w.cTaken < Len(w.cSent)
             /\ calls' = [calls EXCEPT ![c].ws =
                             [w EXCEPT !.cTaken = @ + 1, !.c2u = "send",
                                       !.c2uMsg = w.cSent[w.cTaken + 1]]]
          \/ /\ w.cTaken = Len(w.cSent) /\ w.left /\ ~w.cNoted
             /\ calls' = [calls EXCEPT ![c].ws = [w EXCEPT !.cNoted = TRUE, !.c2u = "closing"]]
    /\ UNCHANGED <<now, caps, sessions, bindings, lock, nextSid, wallet, released, granted>>

\* lines 779-784: upstream.send; on a closed connection it raises, which ends the pump
C2uSend(c) ==
    /\ Tunnel(c) /\ calls[c].ws.c2u = "send"
    /\ LET w == calls[c].ws
       IN calls' = [calls EXCEPT ![c].ws =
                       IF w.up = "open" /\ w.upEnded = ""
                       THEN [w EXCEPT !.uGot = Append(@, client_to_upstream(w.c2uMsg)),
                                      !.c2u = "receive", !.c2uMsg = NoFrame]
                       ELSE [w EXCEPT !.c2u = "failed", !.c2uMsg = NoFrame]]
    /\ UNCHANGED <<now, caps, sessions, bindings, lock, nextSid, wallet, released, granted>>

\* lines 774-777: upstream.close() after the disconnect, return
C2uClose(c) ==
    /\ Tunnel(c) /\ calls[c].ws.c2u = "closing"
    /\ calls' = [calls EXCEPT ![c].ws = [@ EXCEPT !.up = "closed", !.c2u = "done"]]
    /\ UNCHANGED <<now, caps, sessions, bindings, lock, nextSid, wallet, released, granted>>

\* _upstream_to_client, line 789: the iteration yields the next message, ends when the
\* connection was closed in order, raises when it broke
U2cNext(c) ==
    /\ Tunnel(c) /\ calls[c].ws.u2c = "next"
    /\ LET w == calls[c].ws
       IN \/ /\ w.uTaken < Len(w.uSent)
             /\ calls' = [calls EXCEPT ![c].ws =
                             [w EXCEPT !.uTaken = @ + 1, !.u2c = "send",
                                       !.u2cMsg = w.uSent[w.uTaken + 1]]]
          \/ /\ w.uTaken = Len(w.uSent) /\ (w.upEnded # "" \/ w.up = "closed")
             /\ calls' = [calls EXCEPT ![c].ws.u2c =
                             IF w.upEnded = "error" THEN "failed" ELSE "done"]
    /\ UNCHANGED <<now, caps, sessions, bindings, lock, nextSid, wallet, released, granted>>

\* lines 790-793: send_text / send_bytes; on a client that has left it raises
U2cSend(c) ==
    /\ Tunnel(c) /\ calls[c].ws.u2c = "send"
    /\ LET w == calls[c].ws
       IN calls' = [calls EXCEPT ![c].ws =
                       IF ClientCanReceive(w)
                       THEN [w EXCEPT !.out = Append(@, upstream_to_client(w.u2cMsg)),
                                      !.u2c = "next", !.u2cMsg = NoFrame]
                       ELSE [w EXCEPT !.u2c = "failed", !.u2cMsg = NoFrame]]
    /\ UNCHANGED <<now, caps, sessions, bindings, lock, nextSid, wallet, released, granted>>

\* the pump is cancelled at the await it is suspended in
Cancelled(pump) == IF Finished(pump) THEN pump ELSE "cancelled"

\* variant: asyncio.wait returns only when both pumps have completed
WsWait_AllCompleted(c) ==
    /\ calls[c].op = "ws" /\ calls[c].pc = "wait"
    /\ Finished(calls[c].ws.c2u) /\ Finished(calls[c].ws.u2c)
    /\ calls' = [calls EXCEPT ![c] = [@ EXCEPT !.pc = "exit"]]
    /\ UNCHANGED <<now, caps, sessions, bindings, lock, nextSid, wallet, released, granted>>

\* lines 814-817: asyncio.wait(FIRST_COMPLETED) returns, the pending pump is cancelled
\* and both are gathered with return_exceptions=True
WsWait(c) ==
    /\ calls[c].op = "ws" /\ calls[c].pc = "wait"
    /\ Finished(calls[c].ws.c2u) \/ Finished(calls[c].ws.u2c)
    /\ calls' = [calls EXCEPT ![c] =
                    [@ EXCEPT !.pc = "exit", !.ws.c2u = Cancelled(@), !.ws.u2c = Cancelled(@),
                              !.ws.c2uMsg = NoFrame, !.ws.u2cMsg = NoFrame]]
    /\ UNCHANGED <<now, caps, sessions, bindings, lock, nextSid, wallet, released, granted>>

\* line 809, leaving `async with upstream_ctx`: the upstream connection is closed
WsExit(c) ==
    /\ calls[c].op = "ws" /\ calls[c].pc = "exit"
    /\ calls' = [calls EXCEPT ![c] = [@ EXCEPT !.pc = "finally", !.ws.up = "closed"]]
    /\ UNCHANGED <<now, caps, sessions, bindings, lock, nextSid, wallet, released, granted>>

\* ------------------------------------------------------------ specification
Next ==
    \/ Tick
    \/ \E token \in wallet : Forget(token)
    \/ \E c \in Calls : Return(c)
    \/ \E c \in Calls, p \in Principals, t \in Threads, mode \in {"get", "ensure"}, hint \in Hints :
          Acquire(c, p, t, mode, hint)
    \/ \E c \in Calls : EnsureLookup(c)
    \/ \E c \in Calls : EnsureExisting(c)
    \/ \E c \in Calls, outcome \in {"ok", "unavailable", "no-name", "no-dataplane", "not-found"} :
          EnsureProvider(c, outcome)
    \/ \E c \in Calls : EnsureSaveSession(c)
    \/ \E c \in Calls : EnsureSaveBinding(c)
    \/ \E c \in Calls, p \in Principals, sid \in SessionIds : GetSession(c, p, sid)
    \/ \E c \in Calls, p \in Principals, sid \in SessionIds : RefreshLoad(c, p, sid)
    \/ \E c \in Calls : RefreshSaveSession(c)
    \/ \E c \in Calls : RefreshSaveBinding(c)
    \/ \E c \in Calls, p \in Principals, sid \in SessionIds : ReleaseLoad(c, p, sid)
    \/ \E c \in Calls : ReleaseClearSession(c)
    \/ \E c \in Calls : ReleaseClearBinding(c)
    \/ \E c \in Calls, kind \in RelayKinds, sid \in SessionIds, token \in Presentable, hasPath \in BOOLEAN :
          RelayVerify(c, kind, sid, token, hasPath)
    \/ \E c \in Calls : RelayLoad(c)
    \/ \E c \in Calls, status \in UpstreamStatuses : RelayForward(c, status)
    \/ \E c \in Calls, sid \in SessionIds, token \in Presentable : WsAccept(c, sid, token)
    \/ \E c \in Calls : ClientLeaves(c)
    \/ \E c \in Calls : WsVerify(c)
    \/ \E c \in Calls : WsLoad(c)
    \/ \E c \in Calls : WsReject(c)
    \/ \E c \in Calls : WsClose4401(c)
    \/ \E c \in Calls, hasKey \in BOOLEAN : WsSetup(c, hasKey)
    \/ \E c \in Calls, outcome \in {"ok", "refused"} : WsConnect(c, outcome)
    \/ \E c \in Calls : WsRelayError(c)
    \/ \E c \in Calls : WsFinally(c)
    \/ \E c \in Calls, kind \in FrameKinds : ClientSends(c, kind)
    \/ \E c \in Calls, kind \in FrameKinds : UpstreamSends(c, kind)
    \/ \E c \in Calls, how \in {"ok", "error"} : UpstreamEnds(c, how)
    \/ \E c \in Calls : C2uReceive(c)
    \/ \E c \in Calls : C2uSend(c)
    \/ \E c \in Calls : C2uClose(c)
    \/ \E c \in Calls : U2cNext(c)
    \/ \E c \in Calls : U2cSend(c)
    \/ \E c \in Calls : WsWait(c)
    \/ \E c \in Calls : WsExit(c)
    \/ \E c \in Calls, token \in wallet, sig \in {"ok", "bad"}, alg \in Algorithms,
          iss \in Issuers, missing \in SUBSET RequiredClaims :
          VerifyToken(c, token, sig, alg, iss, missing)
    \/ \E c \in Calls, authorization \in Strings(Pieces), x_api_key \in Strings({" ", "tokA", "tokB"}) :
          ExtractToken(c, authorization, x_api_key)
    \/ \E c \in Calls, exc \in HttpExceptions : HandleHttpException(c, exc)
    \/ \E c \in Calls, what \in OutputKinds, env \in Envs, sid \in SessionIds, text \in ExceptionTexts :
          Emit(c, what, env, sid, text)

Spec == Init /\ [][Next]_vars

\* The specification above is the whole service.  Each of the specifications below
\* is the service with fewer kinds of request arriving.

AllCaps == {"execute", "upload", "download"}
Busy == \E c \in Calls : calls[c].pc = "done"
One == {1}

\* the service started with the default SSAP_CAPS
InitDefault == Init /\ caps = AllCaps

\* ------------------------------------------------ one client, one request at a time
\* Every handler, run by clients that wait for each response before the next request;
\* time passes between the awaits of a handler.  SSAP_CAPS is the default.
NextSeq ==
    \/ ~Busy /\ Tick
    \/ ~Busy /\ \E token \in wallet : Forget(token)
    \/ \E c \in One : Return(c)
    \/ \E c \in One, p \in Principals, t \in Threads, mode \in {"get", "ensure"} :
          Acquire(c, p, t, mode, "")
    \/ \E c \in One : EnsureLookup(c)
    \/ \E c \in One : EnsureExisting(c)
    \/ \E c \in One, outcome \in {"ok", "unavailable"} : EnsureProvider(c, outcome)
    \/ \E c \in One : EnsureSaveSession(c)
    \/ \E c \in One : EnsureSaveBinding(c)
    \/ \E c \in One, p \in Principals, sid \in SessionIds : GetSession(c, p, sid)
    \/ \E c \in One, p \in Principals, sid \in SessionIds : RefreshLoad(c, p, sid)
    \/ \E c \in One : RefreshSaveSession(c)
    \/ \E c \in One : RefreshSaveBinding(c)
    \/ \E c \in One, p \in Principals, sid \in SessionIds : ReleaseLoad(c, p, sid)
    \/ \E c \in One : ReleaseClearSession(c)
    \/ \E c \in One : ReleaseClearBinding(c)
    \/ \E c \in One, kind \in RelayKinds, sid \in SessionIds, token \in Presentable, hasPath \in BOOLEAN :
          RelayVerify(c, kind, sid, token, hasPath)
    \/ \E c \in One : RelayLoad(c)
    \/ \E c \in One, status \in UpstreamStatuses : RelayForward(c, status)

SpecSeq == InitDefault /\ [][NextSeq]_vars

\* --------------------------------------------------- sessions and relay traffic
\* Sessions are acquired and relay requests are made with the tokens received, one
\* request at a time, under either setting of SSAP_CAPS.
NextRelay ==
    \/ ~Busy /\ Tick
    \/ ~Busy /\ \E token \in wallet : Forget(token)
    \/ \E c \in One : Return(c)
    \/ \E c \in One, p \in Principals, t \in Threads : Acquire(c, p, t, "ensure", "")
    \/ \E c \in One : EnsureLookup(c)
    \/ \E c \in One : EnsureExisting(c)
    \/ \E c \in One, outcome \in {"ok", "unavailable"} : EnsureProvider(c, outcome)
    \/ \E c \in One : EnsureSaveSession(c)
    \/ \E c \in One : EnsureSaveBinding(c)
    \/ \E c \in One, kind \in RelayKinds, sid \in SessionIds, token \in Presentable, hasPath \in BOOLEAN :
          RelayVerify(c, kind, sid, token, hasPath)
    \/ \E c \in One : RelayLoad(c)
    \/ \E c \in One, status \in UpstreamStatuses : RelayForward(c, status)

SpecRelay == Init /\ [][NextRelay]_vars

\* ------------------------------------------------------ overlapping session calls
\* The session endpoints, called concurrently; the calls overlap within one tick of
\* the clock and the clients drop the tokens they receive.
NextRegistry ==
    \/ \E c \in Calls : Return(c)
    \/ \E c \in Calls, p \in Principals, t \in Threads, mode \in {"get", "ensure"} :
          Acquire(c, p, t, mode, "")
    \/ \E c \in Calls : EnsureLookup(c)
    \/ \E c \in Calls : EnsureExisting(c) /\ wallet' = wallet
    \/ \E c \in Calls, outcome \in {"ok", "unavailable"} : EnsureProvider(c, outcome)
    \/ \E c \in Calls : EnsureSaveSession(c)
    \/ \E c \in Calls : EnsureSaveBinding(c) /\ wallet' = wallet
    \/ \E c \in Calls, p \in Principals, sid \in SessionIds : GetSession(c, p, sid) /\ wallet' = wallet
    \/ \E c \in Calls, p \in Principals, sid \in SessionIds : RefreshLoad(c, p, sid)
    \/ \E c \in Calls : RefreshSaveSession(c)
    \/ \E c \in Calls : RefreshSaveBinding(c) /\ wallet' = wallet
    \/ \E c \in Calls, p \in Principals, sid \in SessionIds : ReleaseLoad(c, p, sid)
    \/ \E c \in Calls : ReleaseClearSession(c)
    \/ \E c \in Calls : ReleaseClearBinding(c)

SpecRegistry == InitDefault /\ [][NextRegistry]_vars

\* ------------------------------------------------------ overlapping ensure calls
\* Only POST /v1/sandbox/sessions arrives: ensure calls race with each other and
\* nothing expires or is released meanwhile.
NextEnsure ==
    \/ \E c \in Calls : Return(c)
    \/ \E c \in Calls, p \in Principals, t \in Threads, mode \in {"get", "ensure"} :
          Acquire(c, p, t, mode, "")
    \/ \E c \in Calls : EnsureLookup(c)
    \/ \E c \in Calls : EnsureExisting(c) /\ wallet' = wallet
    \/ \E c \in Calls, outcome \in {"ok", "unavailable"} : EnsureProvider(c, outcome)
    \/ \E c \in Calls : EnsureSaveSession(c)
    \/ \E c \in Calls : EnsureSaveBinding(c) /\ wallet' = wallet

SpecEnsure == InitDefault /\ [][NextEnsure]_vars

\* ------------------------------------------------------ WebSocket handshakes
\* Sessions are acquired and released and WebSocket handshakes are made with the
\* tokens received, one request at a time; SSAP_CAPS is the default or leaves
\* "execute" out; no upstream accepts the connection.
WsCapsConfigs == {AllCaps, {"upload", "download"}}

InitWs ==
    /\ now = 0
    /\ caps \in WsCapsConfigs
    /\ sessions = [s \in SessionIds |-> NoRecEntry]
    /\ bindings = [k \in Keys |-> NoEntry]
    /\ lock = 0
    /\ nextSid = 1
    /\ calls = [c \in Calls |-> Idle]
    /\ wallet = {}
    /\ released = {}
    /\ granted = [s \in SessionIds |-> NoRecord]

NextWsAuth ==
    \/ ~Busy /\ Tick
    \/ ~Busy /\ \E token \in wallet : Forget(token)
    \/ \E c \in One : Return(c)
    \/ \E c \in One, p \in Principals, t \in Threads : Acquire(c, p, t, "ensure", "")
    \/ \E c \in One : EnsureLookup(c)
    \/ \E c \in One : EnsureExisting(c)
    \/ \E c \in One : EnsureProvider(c, "ok")
    \/ \E c \in One : EnsureSaveSession(c)
    \/ \E c \in One : EnsureSaveBinding(c)
    \/ \E c \in One, p \in Principals, sid \in SessionIds : ReleaseLoad(c, p, sid)
    \/ \E c \in One : ReleaseClearSession(c)
    \/ \E c \in One : ReleaseClearBinding(c)
    \/ \E c \in One, sid \in SessionIds, token \in Presentable : WsAccept(c, sid, token)
    \/ \E c \in One : ClientLeaves(c)
    \/ \E c \in One : WsVerify(c)
    \/ \E c \in One : WsLoad(c)
    \/ \E c \in One : WsReject(c)
    \/ \E c \in One : WsClose4401(c)
    \/ \E c \in One, hasKey \in BOOLEAN : WsSetup(c, hasKey)
    \/ \E c \in One : WsConnect(c, "refused")
    \/ \E c \in One : WsRelayError(c)
    \/ \E c \in One : WsFinally(c)

SpecWsAuth == InitWs /\ [][NextWsAuth]_vars

\* ------------------------------------------------------ one WebSocket tunnel
\* alice acquires a session and opens a tunnel with the token received; the two
\* peers send up to MaxFrames frames each and either of them may go away.  The
\* tunnel lives within one tick of the clock.
NextWsDuplex ==
    \/ \E c \in One : Return(c)
    \/ \E c \in One, t \in Threads : Acquire(c, "alice", t, "ensure", "")
    \/ \E c \in One : EnsureLookup(c)
    \/ \E c \in One : EnsureExisting(c)
    \/ \E c \in One : EnsureProvider(c, "ok")
    \/ \E c \in One : EnsureSaveSession(c)
    \/ \E c \in One : EnsureSaveBinding(c)
    \/ \E c \in One, token \in wallet : WsAccept(c, token.sid, token)
    \/ \E c \in One : ClientLeaves(c)
    \/ \E c \in One : WsVerify(c)
    \/ \E c \in One : WsLoad(c)
    \/ \E c \in One : WsSetup(c, TRUE)
    \/ \E c \in One : WsConnect(c, "ok")
    \/ \E c \in One, kind \in FrameKinds : ClientSends(c, kind)
    \/ \E c \in One, kind \in FrameKinds : UpstreamSends(c, kind)
    \/ \E c \in One, how \in {"ok", "error"} : UpstreamEnds(c, how)
    \/ \E c \in One : C2uReceive(c)
    \/ \E c \in One : C2uSend(c)
    \/ \E c \in One : C2uClose(c)
    \/ \E c \in One : U2cNext(c)
    \/ \E c \in One : U2cSend(c)
    \/ \E c \in One : WsWait(c)
    \/ \E c \in One : WsExit(c)
    \/ \E c \in One : WsFinally(c)

SpecWsDuplex == InitDefault /\ [][NextWsDuplex]_vars

\* The event loop runs every task that is ready: each step of the handler's main
\* task that is enabled is eventually taken.  Nothing is assumed of the two peers.
FairWsDuplex ==
    /\ SpecWsDuplex
    /\ \A c \in One : WF_vars(WsWait(c)) /\ WF_vars(WsExit(c)) /\ WF_vars(WsFinally(c))

\* ------------------------------------------------------ issuing and verifying
\* Sessions are acquired, time passes, and the tokens received are verified as they
\* are or altered: resigned with another key or algorithm, with another issuer, with
\* required claims left out.
NextToken ==
    \/ ~Busy /\ Tick
    \/ ~Busy /\ \E token \in wallet : Forget(token)
    \/ \E c \in One : Return(c)
    \/ \E c \in One, p \in Principals, t \in Threads : Acquire(c, p, t, "ensure", "")
    \/ \E c \in One : EnsureLookup(c)
    \/ \E c \in One : EnsureExisting(c)
    \/ \E c \in One : EnsureProvider(c, "ok")
    \/ \E c \in One : EnsureSaveSession(c)
    \/ \E c \in One : EnsureSaveBinding(c)
    \/ \E c \in One, token \in wallet, sig \in {"ok", "bad"}, alg \in Algorithms,
          iss \in Issuers, missing \in SUBSET RequiredClaims :
          VerifyToken(c, token, sig, alg, iss, missing)

SpecToken == Init /\ [][NextToken]_vars

\* ------------------------------------------------------ token extraction
\* Relay requests arrive with any Authorization and X-Api-Key header values of up to
\* MaxHeaderLen pieces; only the extraction of the token is followed.
NextExtract ==
    \/ \E c \in One : Return(c)
    \/ \E c \in One, authorization \in Strings(Pieces), x_api_key \in Strings({" ", "tokA", "tokB"}) :
          ExtractToken(c, authorization, x_api_key)

SpecExtract == Init /\ [][NextExtract]_vars

\* ------------------------------------------------------ error envelopes
\* HTTPExceptions of every status reach the exception handler, built by _error or
\* with a plain detail.
NextEnvelope ==
    \/ \E c \in Calls : Return(c)
    \/ \E c \in Calls, exc \in HttpExceptions : HandleHttpException(c, exc)

SpecEnvelope == Init /\ [][NextEnvelope]_vars

\* ------------------------------------------------------ outputs and credentials
\* Sessions are acquired; for each stored session the outputs of the handlers are
\* produced under every setting of the provider API key and of the signing secret
\* and with every exception text.
NextSecrets ==
    \/ \E c \in One : Return(c)
    \/ \E c \in One, p \in Principals, t \in Threads : Acquire(c, p, t, "ensure", "")
    \/ \E c \in One : EnsureLookup(c)
    \/ \E c \in One : EnsureExisting(c)
    \/ \E c \in One : EnsureProvider(c, "ok")
    \/ \E c \in One : EnsureSaveSession(c)
    \/ \E c \in One : EnsureSaveBinding(c)
    \/ \E c \in One, what \in OutputKinds, env \in Envs, sid \in SessionIds, text \in ExceptionTexts :
          Emit(c, what, env, sid, text)

SpecSecrets == Init /\ [][NextSecrets]_vars

\* ------------------------------------------------ overlapping ensure calls, in time
\* As above for one principal, and time passes between the awaits of the calls:
\* sessions and bindings lapse while ensure calls are in flight.
NextEnsureClock ==
    \/ ~Busy /\ Tick
    \/ \E c \in Calls : Return(c)
    \/ \E c \in Calls, t \in Threads, mode \in {"get", "ensure"} : Acquire(c, "alice", t, mode, "")
    \/ \E c \in Calls : EnsureLookup(c)
    \/ \E c \in Calls : EnsureExisting(c) /\ wallet' = wallet
    \/ \E c \in Calls, outcome \in {"ok", "unavailable"} : EnsureProvider(c, outcome)
    \/ \E c \in Calls : EnsureSaveSession(c)
    \/ \E c \in Calls : EnsureSaveBinding(c) /\ wallet' = wallet

SpecEnsureClock == InitDefault /\ [][NextEnsureClock]_vars

\* ------------------------------------------------------ release and relay traffic
\* Sessions are acquired, read, refreshed and released and execute requests are
\* relayed with the tokens received for them, all concurrently and within one tick
\* of the clock.
NextRelease ==
    \/ \E c \in Calls : Return(c)
    \/ \E c \in Calls, t \in Threads : Acquire(c, "alice", t, "ensure", "")
    \/ \E c \in Calls : EnsureLookup(c)
    \/ \E c \in Calls : EnsureExisting(c)
    \/ \E c \in Calls : EnsureProvider(c, "ok")
    \/ \E c \in Calls : EnsureSaveSession(c)
    \/ \E c \in Calls : EnsureSaveBinding(c)
    \/ \E c \in Calls, sid \in SessionIds : GetSession(c, "alice", sid) /\ wallet' = wallet
    \/ \E c \in Calls, sid \in SessionIds : RefreshLoad(c, "alice", sid)
    \/ \E c \in Calls : RefreshSaveSession(c)
    \/ \E c \in Calls : RefreshSaveBinding(c) /\ wallet' = wallet
    \/ \E c \in Calls, sid \in SessionIds : ReleaseLoad(c, "alice", sid)
    \/ \E c \in Calls : ReleaseClearSession(c)
    \/ \E c \in Calls : ReleaseClearBinding(c)
    \/ \E c \in Calls, token \in wallet : RelayVerify(c, "execute", token.sid, token, TRUE)
    \/ \E c \in Calls : RelayLoad(c)
    \/ \E c \in Calls, status \in UpstreamStatuses : RelayForward(c, status)

SpecRelease == InitDefault /\ [][NextRelease]_vars

\* ======================================================================= claims

EnsureReturned(c) == calls[c].op = "ensure" /\ calls[c].mode = "ensure" /\ DoneOk(c)

C2_SequentialEnsureSameSession ==
    \A c \in Calls :
        EnsureReturned(c) =>
            \A s \in calls[c].prior :
                (s \notin released /\ now <= granted[s].session_expires_at)
                    => calls[c].rec.session_id = s

\* a request arrives in slot c: the slot leaves idle in this step
Arrives(c, ops) == calls[c].op = "idle" /\ calls'[c].op \in ops

\* the record the store holds under the session id the request names
Addressed(c) == load_session(calls'[c].sid)

\* the answer of a relay handler to a token of another session, by the order of its checks
ForeignRelayAnswer(c) ==
    IF NeedsPath(calls'[c].kind) /\ ~calls'[c].path THEN error(400, "INVALID_REQUEST")
    ELSE IF calls'[c].tok.exp <= now THEN error(401, "TOKEN_EXPIRED")
    ELSE error(403, "FORBIDDEN")

\* C3 as stated: get, refresh, release and every relay operation by a caller whose
\* principal differs from the stored record's principal_id fail with FORBIDDEN.
C3_ForeignAlwaysForbidden ==
    [][\A c \in Calls :
          /\ (Arrives(c, {"get", "refresh", "release"}) /\ Addressed(c) # NoRecord
                /\ Addressed(c).principal_id # calls'[c].principal)
             => (calls'[c].pc = "done" /\ calls'[c].resp.code = "FORBIDDEN")
          /\ (Arrives(c, {"relay"}) /\ Addressed(c) # NoRecord /\ calls'[c].tok.sig = "ok"
                /\ Addressed(c).principal_id # calls'[c].tok.sub)
             => (calls'[c].pc = "done" /\ calls'[c].resp.code = "FORBIDDEN")]_vars

\* C3, amended: for a stored record R and a caller of another principal, get, refresh
\* and release fail with FORBIDDEN; a relay operation with that caller's token fails
\* with FORBIDDEN when the token is unexpired and the mandatory path parameter is
\* present, with TOKEN_EXPIRED when the token is expired, and with INVALID_REQUEST when
\* upload or download lacks path.  None returns the record, mints a token, changes the
\* store or contacts the upstream.
C3_ForeignRejected ==
    [][\A c \in Calls :
          /\ (Arrives(c, {"get", "refresh", "release"}) /\ Addressed(c) # NoRecord
                /\ Addressed(c).principal_id # calls'[c].principal)
             => /\ calls'[c].pc = "done"
                /\ calls'[c].resp = error(403, "FORBIDDEN")
                /\ calls'[c].rec = NoRecord /\ calls'[c].token = NoToken
                /\ ~calls'[c].sent
                /\ UNCHANGED <<sessions, bindings, wallet>>
          /\ (Arrives(c, {"relay"}) /\ Addressed(c) # NoRecord /\ calls'[c].tok.sig = "ok"
                /\ Addressed(c).principal_id # calls'[c].tok.sub)
             => /\ calls'[c].pc = "done"
                /\ calls'[c].resp = ForeignRelayAnswer(c)
                /\ calls'[c].rec = NoRecord /\ calls'[c].token = NoToken
                /\ ~calls'[c].sent
                /\ UNCHANGED <<sessions, bindings, wallet>>]_vars

\* a relay request with an unexpired token of another principal was answered FORBIDDEN
\* while the record it named was in the store
C3_Witness ==
    \E c \in Calls :
        /\ calls[c].op = "relay" /\ calls[c].pc = "done" /\ calls[c].tok.sig = "ok"
        /\ calls[c].tok.exp > now
        /\ load_session(calls[c].sid) # NoRecord
        /\ load_session(calls[c].sid).principal_id # calls[c].tok.sub
        /\ calls[c].resp = error(403, "FORBIDDEN")

\* C4: a relay request whose token was issued for another session than the one in the
\* path is rejected in the handler's first stretch, before the store is read for the
\* path session, whoever owns that session.
C4_TokenBoundToSession ==
    [][\A c \in Calls :
          (Arrives(c, {"relay"}) /\ calls'[c].tok.sig = "ok" /\ calls'[c].tok.sid # calls'[c].sid)
          => /\ calls'[c].pc = "done"
             /\ calls'[c].resp.status \in {400, 401, 403}
             /\ calls'[c].rec = NoRecord
             /\ ~calls'[c].sent]_vars

\* an unexpired token of one session was refused, FORBIDDEN, for another session that
\* is in the store
C4_Witness ==
    \E c \in Calls :
        /\ calls[c].op = "relay" /\ calls[c].pc = "done"
        /\ calls[c].tok.sig = "ok" /\ calls[c].tok.exp > now
        /\ calls[c].tok.sid # calls[c].sid
        /\ load_session(calls[c].sid) # NoRecord
        /\ calls[c].kind = "execute"
        /\ calls[c].resp = error(403, "FORBIDDEN")

\* a relay request arrives with an issued token that lacks the endpoint's capability
LacksCap(c) ==
    /\ Arrives(c, {"relay"}) /\ calls'[c].tok.sig = "ok"
    /\ RequiredCap(calls'[c].kind) \notin calls'[c].tok.caps

Lapsed(sid) == granted[sid] # NoRecord /\ now > granted[sid].session_expires_at

\* slot c reads the record for its relay request in this step
RelayLoads(c) == calls[c].op = "relay" /\ calls[c].pc = "load" /\ calls'[c].pc # "load"

\* C6 as stated: past session_expires_at, get, refresh, release and the relay
\* operations addressed to the session id answer 404 or 410, for every caller and token.
C6_LapsedAlways404or410 ==
    [][\A c \in Calls :
          /\ (Arrives(c, {"get", "refresh", "release"}) /\ Lapsed(calls'[c].sid))
             => (calls'[c].pc = "done" /\ calls'[c].resp.status \in {404, 410})
          /\ (Arrives(c, {"relay"}) /\ Lapsed(calls'[c].sid))
             => \/ calls'[c].pc = "load"
                \/ calls'[c].pc = "done" /\ calls'[c].resp.status \in {404, 410}
          /\ (RelayLoads(c) /\ Lapsed(calls[c].sid))
             => (calls'[c].pc = "done" /\ calls'[c].resp.status \in {404, 410})]_vars

\* C6, amended: past session_expires_at no operation addressed to the session id
\* succeeds.  get, refresh and release answer SESSION_NOT_FOUND when the store has
\* dropped the record and otherwise, the TTL having been rounded up, SESSION_EXPIRED to
\* the owner and FORBIDDEN to another principal; a relay request that passes the token,
\* sid and capability checks is answered 404 or 410, and one that does not 400, 401 or
\* 403.  The store is left as it is and nothing is forwarded.
C6_LapsedNeverServed ==
    [][\A c \in Calls :
          /\ (Arrives(c, {"get", "refresh", "release"}) /\ Lapsed(calls'[c].sid))
             => /\ calls'[c].pc = "done"
                /\ calls'[c].resp =
                      IF Addressed(c) = NoRecord THEN error(404, "SESSION_NOT_FOUND")
                      ELSE IF Addressed(c).principal_id # calls'[c].principal
                        THEN error(403, "FORBIDDEN")
                      ELSE error(410, "SESSION_EXPIRED")
                /\ calls'[c].rec = NoRecord /\ calls'[c].token = NoToken
                /\ UNCHANGED <<sessions, bindings, wallet>>
          /\ (Arrives(c, {"relay"}) /\ Lapsed(calls'[c].sid))
             => \/ calls'[c].pc = "load"
                \/ calls'[c].pc = "done" /\ calls'[c].resp.status \in {400, 401, 403}
          /\ (RelayLoads(c) /\ Lapsed(calls[c].sid))
             => /\ calls'[c].pc = "done"
                /\ calls'[c].resp =
                      IF load_session(calls[c].sid) = NoRecord
                        THEN error(404, "SESSION_NOT_FOUND")
                      ELSE error(410, "SESSION_EXPIRED")
                /\ ~calls'[c].sent
                /\ UNCHANGED <<sessions, bindings, wallet>>]_vars

\* the owner asked for a session whose record was still readable past its
\* session_expires_at, and was answered SESSION_EXPIRED
C6_Witness ==
    \E c \in Calls :
        /\ calls[c].op \in {"get", "refresh", "release"} /\ calls[c].pc = "done"
        /\ load_session(calls[c].sid) # NoRecord
        /\ load_session(calls[c].sid).principal_id = calls[c].principal
        /\ Lapsed(calls[c].sid)
        /\ calls[c].resp = error(410, "SESSION_EXPIRED")

\* C7: nothing is sent to the data plane unless, for that request, the token verified,
\* claims.sid equalled the path session_id, the token carried the required capability,
\* the record existed, claims.sub equalled record.principal_id and the session was not
\* expired.
C7_ForwardOnlyAfterAllChecks ==
    [][\A c \in Calls :
          /\ (calls'[c].sent /\ ~calls[c].sent)
             => (calls[c].op = "relay" /\ calls[c].pc = "forward")
          /\ (calls'[c].pc = "forward" /\ calls[c].pc # "forward")
             => /\ calls[c].op = "relay" /\ calls[c].pc = "load"
                /\ load_session(calls[c].sid) # NoRecord
                /\ calls'[c].rec = load_session(calls[c].sid)
                /\ calls[c].tok.sub = load_session(calls[c].sid).principal_id
                /\ now <= load_session(calls[c].sid).session_expires_at
          /\ (calls'[c].op = "relay" /\ calls'[c].pc = "load" /\ calls[c].pc # "load")
             => /\ calls[c].op = "idle"
                /\ calls'[c].tok.sig = "ok" /\ calls'[c].tok.exp > now
                /\ calls'[c].tok.sid = calls'[c].sid
                /\ RequiredCap(calls'[c].kind) \in calls'[c].tok.caps
                /\ NeedsPath(calls'[c].kind) => calls'[c].path]_vars

\* a download has been forwarded to the data plane
C7_Witness ==
    \E c \in Calls :
        /\ calls[c].op = "relay" /\ calls[c].kind = "download" /\ calls[c].sent
        /\ calls[c].rec.session_id = calls[c].sid

\* a relay request arrives with an issued token that has expired, and with the path
\* parameter if the endpoint needs one
ArrivesExpired(c) ==
    /\ Arrives(c, {"relay"}) /\ calls'[c].tok.sig = "ok" /\ calls'[c].tok.exp <= now
    /\ NeedsPath(calls'[c].kind) => calls'[c].path

\* C8 as stated: a relay request with an expired token is rejected with TOKEN_EXPIRED,
\* and one whose token verified is rejected with SESSION_EXPIRED when the session is
\* past session_expires_at.
C8_ExpiredSessionAlways410 ==
    [][\A c \in Calls :
          /\ ArrivesExpired(c)
             => (calls'[c].pc = "done" /\ calls'[c].resp = error(401, "TOKEN_EXPIRED"))
          /\ (RelayLoads(c) /\ Lapsed(calls[c].sid))
             => (calls'[c].pc = "done" /\ calls'[c].resp = error(410, "SESSION_EXPIRED"))]_vars

\* C8, amended: a relay request with an expired token is rejected with TOKEN_EXPIRED
\* whether or not the session is live; a request whose token verified is rejected with
\* SESSION_EXPIRED when the session is past session_expires_at and its record is still
\* in the store, and with SESSION_NOT_FOUND once the store has dropped the record.
\* exp is not clamped to session_expires_at: a token may outlive its session.
C8_ExpiryCheckedTwice ==
    [][\A c \in Calls :
          /\ ArrivesExpired(c)
             => (calls'[c].pc = "done" /\ calls'[c].resp = error(401, "TOKEN_EXPIRED"))
          /\ (RelayLoads(c) /\ Lapsed(calls[c].sid))
             => /\ calls'[c].pc = "done"
                /\ calls'[c].resp =
                      IF load_session(calls[c].sid) # NoRecord
                        THEN error(410, "SESSION_EXPIRED")
                      ELSE error(404, "SESSION_NOT_FOUND")]_vars

\* a token that is still unexpired was refused with SESSION_EXPIRED: it outlived the
\* session it was issued for
C8_Witness ==
    \E c \in Calls :
        /\ calls[c].op = "relay" /\ calls[c].pc = "done"
        /\ calls[c].tok.sig = "ok" /\ calls[c].tok.exp > now
        /\ calls[c].tok.exp > granted[calls[c].sid].session_expires_at
        /\ calls[c].resp = error(410, "SESSION_EXPIRED")

\* slot c performs one of the two cache writes of refresh in this step
RefreshWrites(c) ==
    /\ calls[c].op = "refresh" /\ calls[c].pc \in {"save_session", "save_binding"}
    /\ calls'[c].pc # calls[c].pc

\* C9: refresh's read, validation and rewrite are one indivisible step with respect to
\* release: refresh never writes the record of S or a binding to S into the store after
\* release(S) has completed.
C9_RefreshAtomic ==
    [][\A c \in Calls : RefreshWrites(c) => calls[c].sid \notin released]_vars

\* no operation is in progress
Quiescent == \A c \in Calls : calls[c].pc \in {"idle", "done"}

\* C10: when no operation is in progress, the record of session S is readable exactly
\* when the binding of (S.principal_id, S.thread_id) is readable and refers to S.
C10_RecordAndBindingTogether ==
    Quiescent =>
        \A s \in SessionIds :
            /\ load_session(s) # NoRecord
               => load_bound_session_id(load_session(s).principal_id,
                                        load_session(s).thread_id) = s
            /\ \A k \in Keys :
                  load_bound_session_id(k[1], k[2]) = s => load_session(s) # NoRecord

\* slot c's ensure(mode=ensure) call returns a record in this step
EnsureReturns(c) ==
    /\ calls[c].op = "ensure" /\ calls[c].mode = "ensure"
    /\ calls[c].pc # "done" /\ calls'[c].pc = "done" /\ calls'[c].resp.status = 200

\* C11, for the session endpoints: once release(S) has returned success or S is past
\* session_expires_at, get and refresh on S do not succeed, and an ensure call that
\* starts after release(S) returned returns another session than S.
C11_NoResurrection ==
    [][\A c \in Calls :
          /\ (Arrives(c, {"get", "refresh"})
                /\ (calls'[c].sid \in released \/ Lapsed(calls'[c].sid)))
             => (calls'[c].pc = "done" /\ calls'[c].resp.status # 200)
          /\ EnsureReturns(c)
             => calls'[c].rec.session_id \notin calls[c].gone]_vars

\* C12: in every state in which an ensure call is awaiting the provider, that call does
\* not hold the mutex (the mutex is free or held by another call).
C12_LockNotHeldAcrossProvider ==
    \A c \in Calls : calls[c].pc = "provider" => lock # c

\* one call awaits the provider while another call holds the mutex
C12_Witness ==
    \E c \in Calls : \E d \in Calls \ {c} :
        calls[c].op = "ensure" /\ calls[c].pc = "provider" /\ lock = d

\* slot c's ensure call finds no live session for its key in this step
FindsNothing(c) ==
    /\ calls[c].op = "ensure"
    /\ \/ /\ calls[c].pc = "lookup" /\ calls'[c].pc # "lookup"
          /\ load_bound_session_id(calls[c].principal, calls[c].thread) = 0
       \/ /\ calls[c].pc = "existing" /\ calls'[c].pc # "existing"
          /\ ~ExistingIsLive(load_session(calls[c].bound))

\* C13: ensure with mode=get that finds no binding, a binding whose record is missing,
\* or an expired record fails with SESSION_NOT_FOUND (404), calls no provider, writes
\* nothing to the store and leaves the mutex free.
C13_GetModeMiss ==
    [][\A c \in Calls :
          (FindsNothing(c) /\ calls[c].mode = "get")
          => /\ calls'[c].pc = "done"
             /\ calls'[c].resp = error(404, "SESSION_NOT_FOUND")
             /\ ~calls'[c].provider
             /\ calls'[c].rec = NoRecord /\ calls'[c].token = NoToken
             /\ lock' = 0
             /\ UNCHANGED <<sessions, bindings, nextSid, wallet>>]_vars

\* a mode=get call found a binding whose record was still readable but expired, and
\* was answered SESSION_NOT_FOUND
C13_Witness ==
    \E c \in Calls :
        /\ calls[c].op = "ensure" /\ calls[c].mode = "get" /\ calls[c].pc = "done"
        /\ calls[c].bound # 0
        /\ load_session(calls[c].bound) # NoRecord
        /\ now > load_session(calls[c].bound).session_expires_at
        /\ calls[c].resp = error(404, "SESSION_NOT_FOUND")

\* the cache entry a write at this instant makes for a session expiring at expires_at
FreshEntry(value, expires_at) ==
    [val |-> value, until |-> now + Max(1, IntSecs(expires_at - now)) * TicksPerSec]

\* C14: refresh does not extend the lifetime.  Whatever refreshes have succeeded, the
\* stored record of a session is field for field the record ensure returned at
\* creation; refresh mints a new token, and rewrites record and binding with TTLs
\* computed from the unchanged session_expires_at.
C14_RefreshKeepsRecord ==
    [][/\ \A s \in SessionIds :
             (Readable(sessions[s])' /\ sessions'[s].val # NoRecord /\ granted'[s] # NoRecord)
             => sessions'[s].val = granted'[s]
       /\ \A c \in Calls :
             /\ (Arrives(c, {"refresh"}) /\ calls'[c].pc = "save_session")
                => /\ calls'[c].rec = granted[calls'[c].sid]
                   /\ calls'[c].token.sid = calls'[c].sid
                   /\ calls'[c].token.iat = IntTimestamp(now)
                   /\ calls'[c].token.exp = IntTimestamp(now + ttl_minutes)
             /\ (RefreshWrites(c) /\ calls[c].pc = "save_session")
                => sessions'[calls[c].sid] =
                      FreshEntry(granted[calls[c].sid], granted[calls[c].sid].session_expires_at)
             /\ (RefreshWrites(c) /\ calls[c].pc = "save_binding")
                => /\ bindings'[<<granted[calls[c].sid].principal_id,
                                  granted[calls[c].sid].thread_id>>] =
                         FreshEntry(calls[c].sid, granted[calls[c].sid].session_expires_at)
                   /\ calls'[c].pc = "done" /\ calls'[c].resp.status = 200]_vars

\* a refresh has succeeded some time after the session was created, and the stored
\* record is the one ensure returned
C14_Witness ==
    \E c \in Calls :
        /\ calls[c].op = "refresh" /\ DoneOk(c)
        /\ granted[calls[c].sid].created_at < now
        /\ load_session(calls[c].sid) = granted[calls[c].sid]
        /\ calls[c].token.exp > granted[calls[c].sid].session_expires_at

\* ------------------------------------------------------------------------ C15
AuthCodes == {"UNAUTHENTICATED", "TOKEN_EXPIRED", "FORBIDDEN", "CAPABILITY_DENIED",
              "SESSION_NOT_FOUND", "SESSION_EXPIRED"}

\* the handshake of call c was refused by lines 755-756
AuthFailed(c) ==
    /\ calls[c].op = "ws" /\ calls[c].pc = "done"
    /\ calls[c].resp.status \in {401, 403, 404, 410}

NoUpstream(c) ==
    /\ calls[c].ws.up = "none" /\ ~calls[c].sent
    /\ calls[c].ws.uGot = <<>> /\ calls[c].ws.c2u = "none" /\ calls[c].ws.u2c = "none"

\* C15 as stated: every handshake that fails authentication ends with exactly one
\* JSON error frame delivered to the client and the client socket closed with code
\* 4401, no upstream connection opened and no frame forwarded.
C15_AuthFailureAlwaysFrameAnd4401 ==
    \A c \in Calls :
        AuthFailed(c) =>
            /\ calls[c].ws.out = <<ErrorFrame(calls[c].resp.code)>>
            /\ calls[c].ws.close = 4401
            /\ NoUpstream(c)

\* C15: a handshake that fails authentication never opens an upstream connection and
\* forwards no frame; when the error frame could be delivered it is the only frame,
\* it carries the failure, and the client socket is closed with code 4401; when the
\* client had already gone, nothing is delivered and close(4401) is not reached.
C15_AuthFailureFrameAnd4401 ==
    \A c \in Calls :
        /\ calls[c].op = "ws" /\ calls[c].pc \in {"reject", "close4401"} => NoUpstream(c)
        /\ AuthFailed(c) =>
            /\ NoUpstream(c)
            /\ calls[c].resp.code \in AuthCodes
            /\ IF calls[c].ws.out # <<>>
               THEN calls[c].ws.out = <<ErrorFrame(calls[c].resp.code)>> /\ calls[c].ws.close = 4401
               ELSE calls[c].ws.left /\ calls[c].ws.close = 0

C15_Witness ==
    \E c \in Calls :
        /\ AuthFailed(c) /\ calls[c].resp.code = "CAPABILITY_DENIED"
        /\ calls[c].ws.out = <<ErrorFrame("CAPABILITY_DENIED")>> /\ calls[c].ws.close = 4401

\* ------------------------------------------------------------------------ C18
\* the relay setup of call c raised after accept and auth had succeeded
SetupFailed(c) ==
    /\ calls[c].op = "ws" /\ calls[c].pc = "done"
    /\ calls[c].resp.status \in {500, 503}

\* C18: whenever the setup of an accepted and authenticated WebSocket relay raises
\* (upstream URL, server API key, connecting to the upstream), the handler ends with
\* the client socket closed by the relay and, for a client that is still there, with
\* the RelayError JSON frame as the only frame delivered.
C18_SetupFailureReported ==
    \A c \in Calls :
        SetupFailed(c) =>
            /\ calls[c].ws.close # 0
            /\ ~calls[c].ws.left => calls[c].ws.out = <<ErrorFrame("RelayError")>>

\* the same for the failures raised inside the try block of lines 795-817
C18_ConnectFailureReported ==
    \A c \in Calls :
        SetupFailed(c) /\ ~calls[c].ws.crashed =>
            /\ calls[c].ws.close # 0
            /\ ~calls[c].ws.left => calls[c].ws.out = <<ErrorFrame("RelayError")>>

\* ------------------------------------------------------------------------ C17
IsPrefix(a, b) == Len(a) <= Len(b) /\ \A i \in 1..Len(a) : a[i] = b[i]

\* C17: in every tunnel the frames delivered to the upstream are a prefix of the
\* frames the client sent and the frames delivered to the client are a prefix of the
\* frames the upstream sent: same order, same kind (text or binary), same payload,
\* none dropped in between, duplicated or merged.  Each pump holds at most the one
\* frame it is forwarding, and the two directions do not constrain each other.
C17_DuplexOrdering ==
    \A c \in Calls :
        calls[c].op = "ws" =>
            LET w == calls[c].ws
            IN /\ IsPrefix(w.uGot, w.cSent)
               /\ IsPrefix(w.out, w.uSent)
               /\ w.cTaken - Len(w.uGot) \in {0, 1}
               /\ w.uTaken - Len(w.out) \in {0, 1}
               /\ w.c2u = "send" => w.c2uMsg = w.cSent[w.cTaken] /\ Len(w.uGot) = w.cTaken - 1
               /\ w.u2c = "send" => w.u2cMsg = w.uSent[w.uTaken] /\ Len(w.out) = w.uTaken - 1

C17_Witness ==
    \E c \in Calls :
        LET w == calls[c].ws
        IN /\ calls[c].op = "ws"
           /\ w.cSent = <<[kind |-> "text", payload |-> 1], [kind |-> "bytes", payload |-> 2]>>
           /\ w.uGot = w.cSent
           /\ w.uSent = <<[kind |-> "bytes", payload |-> 1], [kind |-> "text", payload |-> 2]>>
           /\ w.out = <<[kind |-> "bytes", payload |-> 1]>>

\* ------------------------------------------------------------------------ C16
\* a pump of the tunnel of call c has completed, normally or by error
PumpCompleted(c) ==
    /\ calls[c].op = "ws" /\ calls[c].ws.up # "none"
    /\ calls[c].ws.c2u \in {"done", "failed"} \/ calls[c].ws.u2c \in {"done", "failed"}

\* the main task of call c is past asyncio.wait
PastWait(c) ==
    calls[c].op = "ws" /\ calls[c].ws.up # "none" /\ calls[c].pc \in {"exit", "finally", "done"}

\* the handler of call c has returned with both sockets closed and both pumps over
TunnelClosed(c) ==
    /\ calls[c].op = "ws" /\ calls[c].pc = "done"
    /\ calls[c].ws.up = "closed" /\ calls[c].ws.close # 0
    /\ Finished(calls[c].ws.c2u) /\ Finished(calls[c].ws.u2c)

\* C16: once either pump has completed, the handler eventually returns with the
\* other pump cancelled (or completed as well), the upstream connection closed and
\* the client socket closed; from the moment the main task has seen the completion
\* neither pump runs or holds a frame and no frame is delivered in either direction.
C16_FailFast ==
    /\ [](\A c \in Calls :
            PastWait(c) =>
                /\ Finished(calls[c].ws.c2u) /\ Finished(calls[c].ws.u2c)
                /\ calls[c].ws.c2uMsg = NoFrame /\ calls[c].ws.u2cMsg = NoFrame)
    /\ [][\A c \in Calls :
            PastWait(c) /\ calls'[c].op = "ws" =>
                calls'[c].ws.uGot = calls[c].ws.uGot /\ calls'[c].ws.out = calls[c].ws.out]_vars
    /\ \A c \in Calls : PumpCompleted(c) ~> TunnelClosed(c)

C16_Witness ==
    \E c \in Calls :
        /\ TunnelClosed(c)
        /\ calls[c].ws.c2u = "cancelled" /\ calls[c].ws.u2c = "failed"
        /\ calls[c].ws.cTaken = Len(calls[c].ws.uGot) + 1
        /\ ~calls[c].ws.left

\* ------------------------------------------------------------------------ C19
Verified(c) == calls[c].op = "verify" /\ calls[c].pc = "done"
SignatureValid(wire) == wire.sig = "ok" /\ wire.alg = "HS256"
ExpPast(wire) == "exp" \notin wire.missing /\ wire.exp <= now

\* the token is as _issue_access_token encoded it
AsIssued(wire) == \E token \in wallet : wire = Encode(token)

\* verify(issue(R)) before exp: success, with the principal and the session of the
\* record the token was issued for and the configured capabilities
RoundTrip(c) ==
    AsIssued(calls[c].tok) /\ now < calls[c].tok.exp =>
        /\ calls[c].resp.status = 200
        /\ granted[Payload(calls[c].tok).sid] # NoRecord
        /\ Payload(calls[c].tok).sub = granted[Payload(calls[c].tok).sid].principal_id
        /\ Payload(calls[c].tok).sid = granted[Payload(calls[c].tok).sid].session_id
        /\ Payload(calls[c].tok).caps = caps

\* C19 as stated: the round trip, TOKEN_EXPIRED exactly when the signature is valid
\* and exp is past, UNAUTHENTICATED for every other token that does not verify.
C19_ExpiredExactlyWhenSignedAndPast ==
    \A c \in Calls :
        Verified(c) =>
            /\ RoundTrip(c)
            /\ calls[c].resp.code = "TOKEN_EXPIRED"
                   <=> SignatureValid(calls[c].tok) /\ ExpPast(calls[c].tok)
            /\ calls[c].resp.status # 200 /\ calls[c].resp.code # "TOKEN_EXPIRED"
                   => calls[c].resp = error(401, "UNAUTHENTICATED")

\* C19: the round trip; verify succeeds only on an HS256 token with a valid
\* signature, the configured issuer, all of exp, iat, sid, sub and exp in the
\* future; it fails with TOKEN_EXPIRED exactly when the signature is valid, no
\* required claim is missing and exp is past, whatever the issuer; every other
\* failure is UNAUTHENTICATED.
C19_IssueVerify ==
    \A c \in Calls :
        Verified(c) =>
            LET wire == calls[c].tok
                whole == SignatureValid(wire) /\ wire.missing = {}
            IN /\ RoundTrip(c)
               /\ calls[c].resp.status = 200
                      <=> whole /\ now < wire.exp /\ wire.iss = Issuer
               /\ calls[c].resp.code = "TOKEN_EXPIRED" <=> whole /\ wire.exp <= now
               /\ calls[c].resp.status # 200 /\ calls[c].resp.code # "TOKEN_EXPIRED"
                      => calls[c].resp = error(401, "UNAUTHENTICATED")
               /\ calls[c].resp.status \in {200, 401}

C19_Witness ==
    /\ \E c \in Calls :
          /\ Verified(c) /\ AsIssued(calls[c].tok) /\ calls[c].resp.status = 200
          /\ calls[c].tok.sub = "mallory" /\ caps = {"execute"}
          /\ now = TicksPerSec - 1

C19_WitnessExpired ==
    \E c \in Calls :
        /\ Verified(c) /\ calls[c].resp.code = "TOKEN_EXPIRED"
        /\ calls[c].tok.iss # Issuer

\* ------------------------------------------------------------------------ C20
ExtractionDone(c) == calls[c].op = "extract" /\ calls[c].pc = "done"

\* the header value is `Bearer <token>`: the scheme, a space, a token
BearerToken(authorization) ==
    IF /\ Len(authorization) >= 3 /\ Lower(authorization[1]) = "bearer" /\ authorization[2] = " "
       /\ Strip(SubSeq(authorization, 3, Len(authorization))) # <<>>
    THEN Strip(SubSeq(authorization, 3, Len(authorization)))
    ELSE <<>>

\* the header value is a token, possibly padded
ApiKeyToken(x_api_key) == Strip(x_api_key)

\* C20: extraction yields the token of Authorization: Bearer when there is one,
\* otherwise the token of X-Api-Key when there is one, and fails with UNAUTHENTICATED
\* only when neither header carries a token.
C20_TokenFromEitherHeader ==
    \A c \in Calls :
        ExtractionDone(c) =>
            LET bearer == BearerToken(calls[c].headers.authorization)
                key == ApiKeyToken(calls[c].headers.x_api_key)
            IN IF bearer # <<>>
               THEN calls[c].resp.status = 200 /\ calls[c].extracted = bearer
               ELSE IF key # <<>>
               THEN calls[c].resp.status = 200 /\ calls[c].extracted = key
               ELSE calls[c].resp = error(401, "UNAUTHENTICATED")

\* the same for the requests whose Authorization header is absent or `Bearer <token>`
C20_TokenFromEitherHeaderPlain ==
    \A c \in Calls :
        /\ ExtractionDone(c)
        /\ \/ calls[c].headers.authorization = <<>>
           \/ BearerToken(calls[c].headers.authorization) # <<>>
        => LET bearer == BearerToken(calls[c].headers.authorization)
               key == ApiKeyToken(calls[c].headers.x_api_key)
           IN IF bearer # <<>>
              THEN calls[c].resp.status = 200 /\ calls[c].extracted = bearer
              ELSE IF key # <<>>
              THEN calls[c].resp.status = 200 /\ calls[c].extracted = key
              ELSE calls[c].resp = error(401, "UNAUTHENTICATED")

\* ------------------------------------------------------------------------ C21
\* the response of call c is an error envelope
Envelope(c) == calls[c].op = "raise" /\ calls[c].pc = "done"

C21_RetryableIffStatusCore ==
    \A c \in Calls :
        Envelope(c) /\ calls[c].kind = "dict" =>
            /\ calls[c].resp.retryable <=> calls[c].resp.status \in {423, 429, 503}
            /\ calls[c].resp = error(calls[c].resp.status, calls[c].resp.code)

\* ------------------------------------------------------------------------ C22
Emitted(c) == calls[c].op = "emit" /\ calls[c].pc = "done"

\* an output with the places blanked where the claim allows a credential to show:
\* the signature of a token, the X-Api-Key header of an upstream request
Blanked(what, output) ==
    CASE what \in {"acquire", "refresh"} -> [output EXCEPT !.token.signature = "blank"]
      [] what = "upstream_request" -> [output EXCEPT !.headers.x_api_key = "blank"]
      [] OTHER -> output

NotFound == error(404, "SESSION_NOT_FOUND")

\* a relay request that has passed its session check leaves that state only by
\* forwarding to the upstream and returning the upstream's answer
RelayNotAborted(c) ==
    calls[c].op = "relay" /\ calls[c].pc = "forward" /\ calls'[c] # calls[c] =>
        /\ calls'[c].pc = "done" /\ calls'[c].sent
        /\ calls'[c].resp.status \in UpstreamStatuses

\* C23: a relay request that passed its session check is not aborted by a release
\* of its session, and every get, refresh, release or relay request on S that
\* starts after release(S) returned success is answered SESSION_NOT_FOUND.
C23_ReleaseAgainstRelay ==
    [][\A c \in Calls :
          /\ RelayNotAborted(c)
          /\ Arrives(c, {"get", "refresh", "release"}) /\ calls'[c].sid \in released
                => calls'[c].pc = "done" /\ calls'[c].resp = NotFound
          /\ Arrives(c, {"relay"}) /\ calls'[c].sid \in released /\ calls'[c].pc = "done"
                => calls'[c].resp = NotFound
          /\ calls[c].op = "relay" /\ calls[c].pc = "load" /\ calls[c].sid \in calls[c].gone
                /\ calls'[c] # calls[c]
                => calls'[c].pc = "done" /\ calls'[c].resp = NotFound]_vars

\* the first half alone
C23_InFlightRelayNotAborted ==
    [][\A c \in Calls : RelayNotAborted(c)]_vars

\* a relay request is forwarded although its session has been released meanwhile
C23_ForwardedAfterRelease ==
    \E c \in Calls :
        /\ calls[c].op = "relay" /\ calls[c].pc = "done" /\ calls[c].sent
        /\ calls[c].sid \in released /\ calls[c].sid \notin calls[c].gone

\* ------------------------------------------------------------------------ C24
\* call c is creating a session and has not written its record yet
RecordPending(c) ==
    /\ calls[c].op = "ensure" /\ calls[c].pc = "save_session"

\* call c is between its two writes
BetweenWrites(c) ==
    /\ calls[c].op = "ensure" /\ calls[c].pc = "save_binding"

\* call c is inside the lookup block, between reading the binding and the record
LookingUp(c) ==
    /\ calls[c].op = "ensure" /\ calls[c].pc = "existing"

\* the two writes of a creating ensure call: the record first, the binding in a later
\* step, each with the TTL _ttl_until gives for the record's session_expires_at
WritesInOrder(c) ==
    /\ RecordPending(c) /\ calls'[c].pc # "save_session" =>
          /\ lock = 0 /\ lock' = c /\ BetweenWrites(c)'
          /\ sessions' = [sessions EXCEPT ![calls[c].rec.session_id] =
                             [val |-> calls[c].rec,
                              until |-> now + ttl_until(calls[c].rec.session_expires_at)]]
          /\ bindings' = bindings
    /\ BetweenWrites(c) /\ calls'[c].pc # "save_binding" =>
          /\ lock = c /\ lock' = 0 /\ calls'[c].pc = "done"
          /\ bindings' = [bindings EXCEPT ![<<calls[c].principal, calls[c].thread>>] =
                             [val |-> calls[c].rec.session_id,
                              until |-> now + ttl_until(calls[c].rec.session_expires_at)]]
          /\ sessions' = sessions

\* C24: a creating ensure call writes the record and then the binding within one
\* holding of the mutex, each with the TTL derived from the record's
\* session_expires_at; until its record is written no binding names its session,
\* and while it is between the two writes no other ensure call is inside its
\* lookup block, so none reads a binding of ensure before the record is written.
C24_RecordBeforeBinding ==
    /\ [](\A c \in Calls :
            /\ RecordPending(c) =>
                  \A k \in Keys : ~(Readable(bindings[k]) /\ bindings[k].val = calls[c].rec.session_id)
            /\ BetweenWrites(c) =>
                  /\ lock = c
                  /\ \A d \in Calls \ {c} : ~LookingUp(d) /\ ~BetweenWrites(d))
    /\ [][\A c \in Calls : WritesInOrder(c)]_vars

C24_Witness ==
    \E c \in Calls, d \in Calls :
        /\ c # d /\ BetweenWrites(c) /\ SameKey(c, d)
        /\ calls[d].op = "ensure" /\ calls[d].pc = "lookup"
        /\ now # calls[c].rec.created_at

\* ------------------------------------------------------------------------ C25
KeyOf(c) == <<calls[c].principal, calls[c].thread>>

\* a binding of key k is stored and names a session
BindingStored(k) == Readable(bindings[k]) /\ bindings[k].val \in SessionIds

\* call c has returned a session it created
Created(c) == EnsureReturned(c) /\ calls[c].provider

\* call c writes its binding in this step
WritesBinding(c) == BetweenWrites(c) /\ calls'[c].pc = "done"

\* call c returns in this step a session it found
ReturnsFound(c) ==
    /\ calls[c].op = "ensure" /\ calls[c].pc = "existing"
    /\ calls'[c].pc = "done" /\ calls'[c].resp.status = 200

\* C25: the binding of a key is what the last write left there.  A creating ensure
\* call overwrites the binding of its key with its own session, also when a racing
\* call for the same key has already written and returned another session; only such
\* a write changes which session a readable binding names; and an ensure call that
\* returns a session it found returns the session the binding named when the call
\* read it, so after two racing creates the next ensure returns the later writer's
\* session.
C25_LaterBindingWins ==
    [][\A c \in Calls :
          /\ WritesBinding(c) =>
                /\ bindings'[KeyOf(c)].val = calls[c].rec.session_id
                /\ BindingStored(KeyOf(c))'
                /\ \A d \in calls[c].peers :
                       Created(d) /\ SameKey(c, d) =>
                          /\ calls[d].rec.session_id # calls[c].rec.session_id
                          /\ bindings'[KeyOf(c)].val # calls[d].rec.session_id
          /\ \A k \in Keys :
                BindingStored(k)' /\ bindings'[k].val # bindings[k].val =>
                    \E d \in Calls : WritesBinding(d) /\ KeyOf(d) = k
          /\ calls[c].op = "ensure" /\ calls[c].pc = "lookup" /\ calls'[c].pc = "existing" =>
                /\ BindingStored(KeyOf(c))
                /\ calls'[c].bound = bindings[KeyOf(c)].val
          /\ ReturnsFound(c) => calls'[c].rec.session_id = calls[c].bound]_vars

\* two racing creates for one key have both returned; the binding names the session
\* of the call that obtained its sandbox first and wrote last
C25_Witness ==
    \E c \in Calls : \E d \in calls[c].peers :
        /\ Created(c) /\ Created(d) /\ SameKey(c, d)
        /\ calls[c].rec.session_id < calls[d].rec.session_id
        /\ BindingStored(KeyOf(c))
        /\ bindings[KeyOf(c)].val = calls[c].rec.session_id

\* ------------------------------------------------------------------------ C26
\* ------------------------------------------------- ensure calls and the provider
\* Ensure calls with and without a sandbox hint race; the provider answers with a
\* usable payload, fails, reports the hinted sandbox as not found, or answers with a
\* payload that lacks the name or the dataplane_url.
NextProvider ==
    \/ \E c \in Calls : Return(c)
    \/ \E c \in Calls, p \in Principals, t \in Threads, mode \in {"get", "ensure"}, hint \in Hints :
          Acquire(c, p, t, mode, hint)
    \/ \E c \in Calls : EnsureLookup(c)
    \/ \E c \in Calls : EnsureExisting(c) /\ wallet' = wallet
    \/ \E c \in Calls, outcome \in ProviderOutcomes("box-hint") : EnsureProvider(c, outcome)
    \/ \E c \in Calls : EnsureSaveSession(c)
    \/ \E c \in Calls : EnsureSaveBinding(c) /\ wallet' = wallet

SpecProvider == InitDefault /\ [][NextProvider]_vars

\* the provider call of c, or the reading of its payload, fails in this step
ProviderFails(c) ==
    /\ calls[c].op = "ensure" /\ calls[c].pc = "provider"
    /\ calls'[c].pc = "done"

\* call c has failed at the provider
ProviderFailed(c) ==
    /\ calls[c].op = "ensure" /\ calls[c].pc = "done"
    /\ calls[c].provider /\ calls[c].resp.status # 200

\* C26: when the provider call of an ensure fails or its payload lacks a field, the
\* call ends with 503 BACKEND_UNAVAILABLE, or with 404 SESSION_NOT_FOUND and then it
\* carried a sandbox hint; the step and every earlier step of the call leave records
\* and bindings as they were, no session id is used up, and the call does not hold
\* the lock afterwards.
C26_ProviderFailureLeavesRegistry ==
    [][\A c \in Calls :
          /\ ProviderFails(c) =>
                /\ \/ calls'[c].resp = error(503, "BACKEND_UNAVAILABLE")
                   \/ calls'[c].resp = error(404, "SESSION_NOT_FOUND") /\ calls[c].hint # ""
                /\ calls'[c].rec = NoRecord /\ calls'[c].token = NoToken
                /\ UNCHANGED <<sessions, bindings, nextSid, granted, wallet>>
                /\ lock # c /\ lock' = lock
          /\ calls[c].op = "ensure" /\ calls[c].pc \in {"lookup", "existing", "provider"}
                /\ calls'[c].pc # calls[c].pc =>
                UNCHANGED <<sessions, bindings>>
          /\ ProviderFailed(c)' => lock' # c]_vars

\* both kinds of failure have happened for one key and the registry is still empty:
\* one call failed with 404 for its hint, the other with 503
C26_Witness ==
    \E c, d \in Calls :
        /\ ProviderFailed(c) /\ calls[c].resp.status = 404 /\ calls[c].hint # ""
        /\ ProviderFailed(d) /\ calls[d].resp.status = 503 /\ calls[d].hint = ""
        /\ SameKey(c, d)
        /\ lock = 0
        /\ bindings = [k \in Keys |-> NoEntry]

\* ------------------------------------------------------------------------ C27
\* call c reads the binding of its key in this step
ReadsBinding(c) ==
    /\ calls[c].op = "ensure" /\ calls[c].pc = "lookup"
    /\ calls'[c].pc # "lookup"

\* call c reads the record its binding named in this step
ReadsRecord(c) ==
    /\ calls[c].op = "ensure" /\ calls[c].pc = "existing"
    /\ calls'[c].pc # "existing"

\* the record the binding of c named is stored and now is not after its expiry
BoundRecordLive(c) ==
    /\ calls[c].bound \in SessionIds
    /\ Readable(sessions[calls[c].bound])
    /\ now <= sessions[calls[c].bound].val.session_expires_at

\* C27: an ensure call goes on to read a record only if a binding of its key is
\* stored, and returns the record read only if it is stored and now is not after its
\* session_expires_at when it is read; in every other case a call with mode=ensure
\* goes to the provider, the record it builds has a session id never used before,
\* and its binding write makes the binding name that session.
C27_ReturnsOnlyLiveRecord ==
    [][\A c \in Calls :
          /\ ReadsBinding(c) =>
                IF BindingStored(KeyOf(c))
                THEN calls'[c].pc = "existing" /\ calls'[c].bound = bindings[KeyOf(c)].val
                ELSE calls[c].mode = "ensure" => calls'[c].pc = "provider"
          /\ ReadsRecord(c) =>
                IF BoundRecordLive(c)
                THEN /\ ReturnsFound(c)
                     /\ calls'[c].rec = sessions[calls[c].bound].val
                     /\ now <= calls'[c].rec.session_expires_at
                ELSE /\ ~ReturnsFound(c)
                     /\ calls[c].mode = "ensure" => calls'[c].pc = "provider"
          /\ calls[c].pc = "provider" /\ calls'[c].pc = "save_session" =>
                /\ calls'[c].rec.session_id \notin {calls[d].rec.session_id : d \in Calls}
                /\ calls'[c].rec.session_id # calls[c].bound
                /\ granted[calls'[c].rec.session_id] = NoRecord
                /\ sessions[calls'[c].rec.session_id] = NoRecEntry
                /\ now < calls'[c].rec.session_expires_at
          /\ WritesBinding(c) =>
                /\ bindings'[KeyOf(c)].val = calls[c].rec.session_id
                /\ calls'[c].resp.status = 200
                /\ calls'[c].rec = calls[c].rec]_vars

\* a call found a binding, did not return the session it named, and has returned a
\* session it created while the binding named the old one
C27_Witness ==
    \E c \in Calls :
        /\ Created(c)
        /\ calls[c].bound \in SessionIds
        /\ calls[c].rec.session_id # calls[c].bound
        /\ calls[c].peers = {}
        /\ bindings[KeyOf(c)].val = calls[c].rec.session_id

\* ------------------------------------------------------------------------ C28
\* release call c clears the binding of its record's key in this step
ClearsBinding(c) ==
    /\ calls[c].op = "release" /\ calls[c].pc = "clear_binding"
    /\ calls'[c].pc = "done"

\* the key of the record a refresh or release call works on
RecKeyOf(c) == <<calls[c].rec.principal_id, calls[c].rec.thread_id>>

\* C28: release(S) removes only S's own entries: when the binding of
\* (S.principal_id, S.thread_id) names a session other than S, the release leaves
\* that binding as it is.
C28_ReleaseKeepsOtherBinding ==
    [][\A c \in Calls :
          ClearsBinding(c) /\ BindingStored(RecKeyOf(c))
                           /\ bindings[RecKeyOf(c)].val # calls[c].sid =>
              bindings'[RecKeyOf(c)] = bindings[RecKeyOf(c)]]_vars

\* ------------------------------------------------------------------------ C29
\* refresh call c writes the binding of its record's key in this step
RefreshWritesBinding(c) ==
    /\ calls[c].op = "refresh" /\ calls[c].pc = "save_binding"
    /\ calls'[c].pc = "done"

\* C29: refresh(S) never changes which session the binding of
\* (S.principal_id, S.thread_id) names: a binding stored before the write of the
\* refresh names the same session after it, also when that session is not S.
C29_RefreshKeepsBindingTarget ==
    [][\A c \in Calls :
          RefreshWritesBinding(c) /\ BindingStored(RecKeyOf(c)) =>
              bindings'[RecKeyOf(c)].val = bindings[RecKeyOf(c)].val]_vars

\* ------------------------------------------------------------------------ C30
\* ------------------------------------------- ensure calls under fair scheduling
\* The event loop runs every task that can run, the awaited store and provider calls
\* return, and asyncio.Lock wakes its waiters in the order they arrived, so a call
\* waiting for the lock gets it when it is free often enough.  Requests arrive,
\* responses are collected and time passes whenever the clients and the clock choose.
FairEnsure ==
    /\ SpecEnsureClock
    /\ \A c \in Calls :
          /\ SF_vars(EnsureLookup(c))
          /\ WF_vars(EnsureExisting(c) /\ wallet' = wallet)
          /\ WF_vars(\E outcome \in {"ok", "unavailable"} : EnsureProvider(c, outcome))
          /\ SF_vars(EnsureSaveSession(c))
          /\ WF_vars(EnsureSaveBinding(c) /\ wallet' = wallet)

\* call c is inside one of the two `async with _lock` blocks
InsideLock(c) ==
    /\ calls[c].op = "ensure"
    /\ calls[c].pc \in {"existing", "save_binding"}

\* call c has completed with a record or with an error
Completed(c) ==
    /\ calls[c].op = "ensure" /\ calls[c].pc = "done"
    /\ \/ calls[c].resp.status = 200 /\ calls[c].rec # NoRecord
       \/ calls[c].resp.status \in {404, 503} /\ calls[c].rec = NoRecord

\* C30: the lock is held exactly by a call that is inside one of the two locked
\* blocks of ensure, so every way out of them (hit, mode=get miss, miss that goes on
\* to the provider, provider failure, completed create) leaves the lock; and under
\* fair scheduling every ensure call that has arrived completes with a record or
\* with an error, however many others run at the same time.
C30_EnsureNeverStuck ==
    /\ [](\A c \in Calls : (lock = c) <=> InsideLock(c))
    /\ \A c \in Calls : (calls[c].op = "ensure" /\ InFlight(c)) ~> Completed(c)

\* two calls raced for one key; one has completed with a record it created and the
\* other with a provider error, and the lock is free
C30_Witness ==
    \E c \in Calls : \E d \in calls[c].peers :
        /\ SameKey(c, d)
        /\ Completed(c) /\ calls[c].resp.status = 200 /\ calls[c].provider
        /\ Completed(d) /\ calls[d].resp.status = 503
        /\ lock = 0

====
